---- MODULE Spec2Model ----
(***************************************************************************)
(* A model of quicklens: the field math utilities (math.cpp), the lens and *)
(* source objects (lens.cpp), the parallel renderer and the critical-curve *)
(* inverter (renderer.cpp) and the screen's event handlers (screen_io.cpp).*)
(*                                                                         *)
(* Numbers.  A C++ double is modelled as a fixed-point number: the integer *)
(* v stands for the double v / FracDen.  FracDen is even, so that 0.5 is   *)
(* exact.  The value returned by exp() is kept in exact form (its          *)
(* argument), see ExpDouble.                                               *)
(***************************************************************************)
EXTENDS Integers, Sequences, FiniteSets, TLC

VARIABLES
    mcall,      \* the last call of a field math utility: its arguments and results
    source,     \* the sourceT object
    squery,     \* the last query answered by the sourceT object
    lens,       \* the lensT object
    lquery,     \* the last query answered by the lensT object
    screen,     \* the screenT object (trackbar values, flags, the two buffers)
    pc,         \* the position of the running event handler
    job         \* the cv::parallel_for_ in progress: its row ranges and workers

vars == <<mcall, source, squery, lens, lquery, screen, pc, job>>

---------------------------------------------------------------------------
(* Bounds of the model *)

\* Half the fixed-point denominator.
HalfDen == 2
\* Interval lengths handed to relocate and to the fall-off run over 1..MaxLen.
MaxLen == 3
\* Integer coordinates handed to relocate run over -MaxCoord..MaxCoord.
MaxCoord == 5
\* Relative pixel coordinates handed to the fall-off run over -MaxRelPx..MaxRelPx.
MaxRelPx == 380
\* Grids handed to calculate_median have up to MaxMedRows x MaxMedCols cells.
MaxMedRows == 2
MaxMedCols == 2
\* Cell values of the grids handed to calculate_median run over 0..MaxMedVal.
MaxMedVal == 2
\* Kernels handed to fill_green_fct have up to MaxKernel x MaxKernel cells.
MaxKernel == 10
\* Grids handed to deriv_x and deriv_y have up to MaxDeriv x MaxDeriv cells.
MaxDeriv == 5

FracDen == 2 * HalfDen

---------------------------------------------------------------------------
(* Arithmetic of the C++ built-in types *)

INT_MIN == -2147483647 - 1
INT_MAX == 2147483647

Min(a, b) == IF a < b THEN a ELSE b
Max(a, b) == IF a < b THEN b ELSE a
Abs(a) == IF a < 0 THEN -a ELSE a

\* static_cast<int>(num / den) of a double in the range of int: the fraction
\* is discarded (truncation toward zero).  den > 0.
StaticCastInt(num, den) ==
    IF num >= 0 THEN num \div den ELSE -((-num) \div den)

\* The doubles that no int holds: the cast of one of them to int is undefined;
\* the builds at hand yield INT_MIN (x86), or saturate / yield 0 for NaN (ARM).
NonFiniteDoubles == {"nan", "+huge", "-huge"}
StaticCastIntUndefined == {INT_MIN, INT_MAX, 0}

\* floor(num / den), den > 0.
Floor(num, den) == num \div den

---------------------------------------------------------------------------
(* math.cpp: relocate *)

\* A faulty variant: a coordinate past the interval is relocated to interval_len.
relocate_int_mut(rounded_coord, interval_len) ==
    IF rounded_coord < 0 THEN 0
    ELSE IF rounded_coord >= interval_len THEN interval_len
    ELSE rounded_coord

\* int relocate(int rounded_coord, int interval_len).
relocate_int(rounded_coord, interval_len) ==
    IF rounded_coord < 0 THEN 0
    ELSE IF rounded_coord >= interval_len THEN interval_len - 1
    ELSE rounded_coord

\* int relocate(double phys_coord, int interval_len) from the cast on: the
\* clamp of nearest = static_cast<int>(phys_coord + 0.5), which is the code of
\* the int overload.
relocate_nearest(nearest, interval_len) == relocate_int(nearest, interval_len)

\* int relocate(double phys_coord, int interval_len), phys_coord a double in
\* the range of int, in fixed point.
relocate(phys_coord, interval_len) ==
    relocate_nearest(StaticCastInt(phys_coord + HalfDen, FracDen), interval_len)

---------------------------------------------------------------------------
(* math.cpp: exp_fall_off, relocate_and_compute_exp_falloff *)

\* The double exp(num / den) for num <= 0 < den, in exact form: the double is
\* 0 (underflow), or it is e^(n/d), which is 1 exactly when n = 0.  exp(x) of
\* an IEEE double is 0 once x is below ln(2^-1075) = -745.133..., taken here
\* as x <= -745.14.
ExpDouble(num, den) ==
    IF num * 100 <= -(74514 * den)
    THEN [zero |-> TRUE, n |-> 0, d |-> 1]
    ELSE [zero |-> FALSE, n |-> num, d |-> den]

WOne == [zero |-> FALSE, n |-> 0, d |-> 1]
WIsOne(a) == ~a.zero /\ a.n = 0
WLess(a, b) ==
    IF b.zero THEN FALSE
    ELSE IF a.zero THEN TRUE
    ELSE a.n * b.d < b.n * a.d

\* double exp_fall_off(int rel_px, int len, double half, double lm1);
\* half and lm1 are doubles in fixed point.
exp_fall_off(rel_px, len, half, lm1) ==
    IF rel_px < 0 THEN ExpDouble(rel_px * FracDen, half)
    ELSE IF rel_px >= len THEN ExpDouble(lm1 - rel_px * FracDen, half)
    ELSE WOne

\* A faulty variant: the upper branch measures the distance from len, not from lm1.
relocate_and_compute_exp_falloff_mut(rel_px, len, half, lm1) ==
    IF rel_px < 0
    THEN [safe_rel_x |-> 0, weight |-> ExpDouble(rel_px * FracDen, half)]
    ELSE IF rel_px >= len
    THEN [safe_rel_x |-> StaticCastInt(lm1, FracDen),
          weight |-> ExpDouble(len * FracDen - rel_px * FracDen, half)]
    ELSE [safe_rel_x |-> rel_px, weight |-> WOne]

\* double relocate_and_compute_exp_falloff(int rel_px, int len, double half,
\* double lm1, int &safe_rel_x): the result and the out-parameter as a record.
relocate_and_compute_exp_falloff(rel_px, len, half, lm1) ==
    IF rel_px < 0
    THEN [safe_rel_x |-> 0, weight |-> ExpDouble(rel_px * FracDen, half)]
    ELSE IF rel_px >= len
    THEN [safe_rel_x |-> StaticCastInt(lm1, FracDen),
          weight |-> ExpDouble(lm1 - rel_px * FracDen, half)]
    ELSE [safe_rel_x |-> rel_px, weight |-> WOne]

---------------------------------------------------------------------------
(* math.cpp: calculate_median *)

\* A Mat is a record [rows, cols, at], at a function on (0..rows-1) \X (0..cols-1).
Cells(rows, cols) == (0 .. rows - 1) \X (0 .. cols - 1)

\* img_orig.clone().reshape(0, 1) copied to a vector: the cells row by row.
Flatten(img) ==
    [k \in 1 .. img.rows * img.cols |->
        img.at[<<(k - 1) \div img.cols, (k - 1) % img.cols>>]]

\* flat[nth] after std::nth_element(flat.begin(), flat.begin() + nth, flat.end()):
\* the element that a full sort would put at index nth (0-based).
NthElement(flat, nth) ==
    CHOOSE v \in {flat[k] : k \in DOMAIN flat} :
        /\ Cardinality({k \in DOMAIN flat : flat[k] < v}) <= nth
        /\ Cardinality({k \in DOMAIN flat : flat[k] <= v}) > nth

\* A faulty variant: the element before the middle one.
calculate_median_mut(img_orig) ==
    LET flat == Flatten(img_orig)
    IN  NthElement(flat, (Len(flat) - 1) \div 2)

calculate_median(img_orig) ==
    LET flat == Flatten(img_orig)
    IN  NthElement(flat, Len(flat) \div 2)

---------------------------------------------------------------------------
(* math.cpp: fill_green_fct *)

\* The value val of a kernel cell is named by the argument it is computed from:
\* GreenKey k >= 1 stands for factor * log(sqrt(k)), GreenKey 0 for the cut
\* -1.4658711977588554 of the cell (0, 0); log is injective, so two cells hold
\* the same double exactly when they hold the same key.  ZeroCell is the 0.0
\* of the cv::Mat::zeros the kernel is created with.
ZeroCell == -1

\* green_fct.at<double>(r, c) = val.  A cell outside the Mat is recorded in
\* oob (cv::Mat::at checks no index in a release build).
KernelWrite(g, r, c, val) ==
    IF r \in 0 .. g.rows - 1 /\ c \in 0 .. g.cols - 1
    THEN [g EXCEPT !.at[<<r, c>>] = val, !.written = @ \cup {<<r, c>>}]
    ELSE [g EXCEPT !.oob = TRUE]

\* A faulty variant: the mirrored quarters are not filled for the row i = 0.
GreenCell_mut(g, i, j) ==
    LET Y == g.rows
        X == g.cols
        Ymi == Y - i
        Xmj == X - j
        i_sq == i * i
        val == IF i = 0 /\ j = 0 THEN 0 ELSE i_sq + j * j
        g1 == KernelWrite(g, i, j, val)
        g2 == IF i # 0 THEN KernelWrite(g1, Ymi, j, val) ELSE g1
        g3 == IF i # 0 /\ j # 0 THEN KernelWrite(g2, Ymi, Xmj, val) ELSE g2
    IN  IF j # 0 /\ i # 0 THEN KernelWrite(g3, i, Xmj, val) ELSE g3

\* The body of the inner loop of fill_green_fct (math.cpp 111-129).
GreenCell(g, i, j) ==
    LET Y == g.rows
        X == g.cols
        Ymi == Y - i
        Xmj == X - j
        i_sq == i * i
        val == IF i = 0 /\ j = 0 THEN 0 ELSE i_sq + j * j
        g1 == KernelWrite(g, i, j, val)
        g2 == IF i # 0 THEN KernelWrite(g1, Ymi, j, val) ELSE g1
        g3 == IF i # 0 /\ j # 0 THEN KernelWrite(g2, Ymi, Xmj, val) ELSE g2
    IN  IF j # 0 THEN KernelWrite(g3, i, Xmj, val) ELSE g3

\* The two loops of fill_green_fct from (i, j) on: i over 0..Y/2, j over 0..X/2.
RECURSIVE GreenLoop(_, _, _)
GreenLoop(g, i, j) ==
    IF i > g.rows \div 2 THEN g
    ELSE IF j > g.cols \div 2 THEN GreenLoop(g, i + 1, 0)
    ELSE GreenLoop(GreenCell(g, i, j), i, j + 1)

\* Mat::zeros(rows, cols, CV_64FC1), no cell written yet.
ZeroKernel(rows, cols) ==
    [rows |-> rows, cols |-> cols,
     at |-> [rc \in Cells(rows, cols) |-> ZeroCell],
     written |-> {}, oob |-> FALSE]

\* void fill_green_fct(Mat &green_fct) on a zero kernel of rows x cols cells.
fill_green_fct(rows, cols) == GreenLoop(ZeroKernel(rows, cols), 0, 0)

---------------------------------------------------------------------------
(* math.cpp: translateImg, deriv_x, deriv_y.  A grid of doubles is
   [rows, cols, den, at]: the cell rc holds at[rc] / den. *)

GridAt(f, r, c) ==
    IF <<r, c>> \in Cells(f.rows, f.cols) THEN f.at[<<r, c>>] ELSE 0

Grid(rows, cols, den, at) ==
    [rows |-> rows, cols |-> cols, den |-> den, at |-> at]

EmptyGrid == [rows |-> 0, cols |-> 0, den |-> 1, at |-> <<>>]

\* Mat translateImg(Mat f, int N, Direction direction): the cell (r, c) of
\* the shifted grid, 0 where nothing is copied to.
translateImg(f, N, direction, r, c) ==
    CASE direction = "ShiftUp" ->
            IF r < f.rows - N THEN GridAt(f, r + N, c) ELSE 0
      [] direction = "ShiftLeft" ->
            IF c >= N THEN GridAt(f, r, c - N) ELSE 0
      [] direction = "ShiftDown" ->
            IF r >= N THEN GridAt(f, r - N, c) ELSE 0
      [] direction = "ShiftRight" ->
            IF c < f.cols - N THEN GridAt(f, r, c + N) ELSE 0

\* The loop over the borders of deriv_x and deriv_y along one line of n
\* cells, line[k] being the finite difference at its cell k: the cells 0 and
\* 1 take line[2], then the cells n-1 and n-2 take line[n-3], the later
\* write winning; the value read at a cell outside the line is not defined
\* (here 0).
BorderReplicated(line, n, k) ==
    LET border1 == IF 2 < n THEN line[2] ELSE 0
        border2 == IF n - 3 >= 0 THEN line[n - 3] ELSE 0
    IN  IF k = n - 1 \/ k = n - 2 THEN border2
        ELSE IF k = 0 \/ k = 1 THEN border1
        ELSE line[k]

\* The cells the border loop reads and writes along a line of n cells.
BorderAccesses(n) == {2, n - 3, 0, 1, n - 1, n - 2}

\* void deriv_x(Mat &input, Mat &result).
deriv_x(input) ==
    Grid(input.rows, input.cols, 2 * input.den,
        [rc \in Cells(input.rows, input.cols) |->
            LET r == rc[1]
                c == rc[2]
            IN  BorderReplicated([k \in 0 .. input.cols - 1 |->
                                 translateImg(input, 1, "ShiftRight", r, k)
                                 - translateImg(input, 1, "ShiftLeft", r, k)],
                             input.cols, c)])

\* void deriv_y(Mat &input, Mat &result).
deriv_y(input) ==
    Grid(input.rows, input.cols, 2 * input.den,
        [rc \in Cells(input.rows, input.cols) |->
            LET r == rc[1]
                c == rc[2]
            IN  BorderReplicated([k \in 0 .. input.rows - 1 |->
                                 translateImg(input, 1, "ShiftUp", k, c)
                                 - translateImg(input, 1, "ShiftDown", k, c)],
                             input.rows, r)])

\* The lines of the two ROIs of translateImg(f, 1, direction) along the
\* shifted axis of n cells: Rect(1, 0, n - 1, .) and Rect(0, 0, n - 1, .).
TranslateAccesses(n) == (1 .. n - 1) \cup (0 .. n - 2)

\* The cells of the result grid that deriv_x (axis "x") and deriv_y (axis
\* "y") access: those of the two shifts, and in each row (column) those of
\* the border loop.
DerivAccesses(rows, cols, axis) ==
    IF axis = "x"
    THEN {<<i, k>> : i \in 0 .. rows - 1,
                     k \in TranslateAccesses(cols) \cup BorderAccesses(cols)}
    ELSE {<<k, i>> : i \in 0 .. cols - 1,
                     k \in TranslateAccesses(rows) \cup BorderAccesses(rows)}

\* The scalar fields differentiated: no two of their neighbouring
\* differences are equal.
SampleFields == {"cubic", "mixed"}
FieldValue(kind, r, c) ==
    IF kind = "cubic" THEN c * c * c + 2 * r * r + 1
    ELSE r * r * r + 3 * r * c + 2 * c * c + 2

---------------------------------------------------------------------------
(* The field math utilities, called with arguments from bounded sets *)

IdleSource == [state |-> "none"]
IdleQuery == [fn |-> "none"]
IdleLens == [state |-> "none"]
IdleScreen == [state |-> "none"]

NoCall == [fn |-> "none"]
NoJob == [body |-> "none"]

\* One utility is called, once, from the state in which none was called yet.
MathOnly ==
    /\ mcall = NoCall
    /\ UNCHANGED <<source, squery, lens, lquery, screen, pc, job>>

\* relocate(x, L) for a double x in the range of int, and relocate of the result.
CallRelocate ==
    /\ \E x \in (-MaxCoord * FracDen) .. (MaxCoord * FracDen), L \in 1 .. MaxLen :
          LET r == relocate(x, L)
          IN  mcall' = [fn |-> "relocate", kind |-> "double", x |-> x,
                        interval_len |-> L, r |-> r,
                        rr |-> relocate_int(r, L),
                        rrd |-> relocate(r * FracDen, L)]
    /\ MathOnly

\* relocate(x, L) for a double x that no int holds: the cast is undefined.
CallRelocateNonFinite ==
    /\ \E x \in NonFiniteDoubles, nearest \in StaticCastIntUndefined, L \in 1 .. MaxLen :
          LET r == relocate_nearest(nearest, L)
          IN  mcall' = [fn |-> "relocate", kind |-> "nonfinite", x |-> nearest,
                        interval_len |-> L, r |-> r,
                        rr |-> relocate_int(r, L),
                        rrd |-> relocate(r * FracDen, L)]
    /\ MathOnly

\* relocate(x, L) for an int x.
CallRelocateInt ==
    /\ \E x \in (-MaxCoord) .. MaxCoord, L \in 1 .. MaxLen :
          LET r == relocate_int(x, L)
          IN  mcall' = [fn |-> "relocate", kind |-> "int", x |-> x,
                        interval_len |-> L, r |-> r,
                        rr |-> relocate_int(r, L),
                        rrd |-> relocate(r * FracDen, L)]
    /\ MathOnly

\* relocate_and_compute_exp_falloff and exp_fall_off at rel_px, and at the
\* coordinate one pixel further away from [0, len); half = len * 0.5 and
\* lm1 = len - 1 as the renderer passes them (renderer.cpp 28-33).
CallFallOff ==
    /\ \E rel_px \in (-MaxRelPx) .. MaxRelPx, len \in 1 .. MaxLen :
          LET half == len * HalfDen
              lm1 == (len - 1) * FracDen
              further == IF rel_px < 0 THEN rel_px - 1 ELSE rel_px + 1
          IN  mcall' = [fn |-> "falloff", rel_px |-> rel_px, len |-> len,
                        half |-> half,
                        out |-> relocate_and_compute_exp_falloff(rel_px, len, half, lm1),
                        further |-> relocate_and_compute_exp_falloff(further, len, half, lm1),
                        f |-> exp_fall_off(rel_px, len, half, lm1)]
    /\ MathOnly

\* calculate_median of a grid.
CallMedian ==
    /\ \E rows \in 1 .. MaxMedRows, cols \in 1 .. MaxMedCols :
          \E at \in [Cells(rows, cols) -> 0 .. MaxMedVal] :
             LET img == [rows |-> rows, cols |-> cols, at |-> at]
             IN  mcall' = [fn |-> "median", img |-> img,
                           median |-> calculate_median(img)]
    /\ MathOnly

\* fill_green_fct of a zero kernel.
CallFillGreen ==
    /\ \E rows \in 1 .. MaxKernel, cols \in 1 .. MaxKernel :
          mcall' = [fn |-> "fill_green_fct", kernel |-> fill_green_fct(rows, cols)]
    /\ MathOnly

\* deriv_x and deriv_y of a grid: the results, and the cells of the result
\* grid that the border loops read and write, for the grids of 3 x 3 cells
\* and more; for a smaller grid some of these cells are outside the grid, the
\* values read there and the effect of the writes are not defined, and only
\* the accesses are recorded.
CallDeriv ==
    /\ \E rows \in 1 .. MaxDeriv, cols \in 1 .. MaxDeriv, kind \in SampleFields :
          LET input == Grid(rows, cols, 1,
                            [rc \in Cells(rows, cols) |->
                                FieldValue(kind, rc[1], rc[2])])
              defined == rows >= 3 /\ cols >= 3
          IN  mcall' = [fn |-> "deriv", input |-> input,
                        defined |-> defined,
                        dx |-> IF defined THEN deriv_x(input) ELSE EmptyGrid,
                        dy |-> IF defined THEN deriv_y(input) ELSE EmptyGrid,
                        x_accesses |-> DerivAccesses(rows, cols, "x"),
                        y_accesses |-> DerivAccesses(rows, cols, "y")]
    /\ MathOnly

InitMath ==
    /\ mcall = NoCall
    /\ source = IdleSource
    /\ squery = IdleQuery
    /\ lens = IdleLens
    /\ lquery = IdleQuery
    /\ screen = IdleScreen
    /\ pc = "idle"
    /\ job = NoJob

\* NextMath and SpecMath follow the derivation of the lens fields, which is
\* called as a utility too.

---------------------------------------------------------------------------
(* Claims about the field math utilities *)

\* C1: for every coordinate x (an int, a double, also a double that no int
\* holds) and every length L >= 1, relocate(x, L) lies in [0, L-1], relocating
\* the result again (by either overload) gives the result, and an integer
\* already in [0, L-1] is returned as it is.
C1_RelocateIdempotent ==
    mcall.fn = "relocate" =>
        /\ mcall.r \in 0 .. mcall.interval_len - 1
        /\ mcall.rr = mcall.r
        /\ mcall.rrd = mcall.r
        /\ (mcall.kind = "int" /\ mcall.x \in 0 .. mcall.interval_len - 1)
              => mcall.r = mcall.x
        /\ (mcall.kind = "double" /\ mcall.x % FracDen = 0
              /\ mcall.x \div FracDen \in 0 .. mcall.interval_len - 1)
              => mcall.r = mcall.x \div FracDen

\* C1, witness: a double past the interval that is no integer was relocated
\* to L-1, and an int below the interval to 0.
C1_Witness ==
    /\ mcall.fn = "relocate"
    /\ \/ /\ mcall.kind = "double"
          /\ mcall.x % FracDen # 0
          /\ mcall.x > mcall.interval_len * FracDen
          /\ mcall.interval_len > 1
          /\ mcall.r = mcall.interval_len - 1
       \/ /\ mcall.kind = "int"
          /\ mcall.x < 0
          /\ mcall.r = 0

Outside(rel_px, len) == rel_px < 0 \/ rel_px >= len
NearestEnd(rel_px, len) == IF rel_px < 0 THEN 0 ELSE len - 1
\* How far rel_px lies outside [0, len), counted from the nearest cell.
Excess(rel_px, len) == IF rel_px < 0 THEN -rel_px ELSE rel_px - (len - 1)

\* C2 as stated: weight 1.0 and the unmodified coordinate inside [0, len);
\* outside, the weight strictly decreases with the distance, is always in
\* (0, 1], and the coordinate is the nearest of 0 and len-1.
C2_AsStated ==
    mcall.fn = "falloff" =>
        /\ ~Outside(mcall.rel_px, mcall.len)
              => /\ WIsOne(mcall.out.weight)
                 /\ mcall.out.safe_rel_x = mcall.rel_px
        /\ Outside(mcall.rel_px, mcall.len)
              => /\ WLess(mcall.further.weight, mcall.out.weight)
                 /\ ~mcall.out.weight.zero
                 /\ ~WLess(WOne, mcall.out.weight)
                 /\ mcall.out.safe_rel_x = NearestEnd(mcall.rel_px, mcall.len)

\* C2, amended: weight 1.0 and the unmodified coordinate inside [0, len);
\* outside, the coordinate is the nearest of 0 and len-1, the weight is in
\* [0, 1) and never increases with the distance; it is positive and strictly
\* decreasing as long as the distance is at most 700 * half (the double exp
\* underflows to 0 from about 745 * half on).  exp_fall_off returns the same
\* weight.
C2_FallOff ==
    mcall.fn = "falloff" =>
        /\ mcall.f = mcall.out.weight
        /\ ~Outside(mcall.rel_px, mcall.len)
              => /\ WIsOne(mcall.out.weight)
                 /\ mcall.out.safe_rel_x = mcall.rel_px
        /\ Outside(mcall.rel_px, mcall.len)
              => /\ mcall.out.safe_rel_x = NearestEnd(mcall.rel_px, mcall.len)
                 /\ WLess(mcall.out.weight, WOne)
                 /\ ~WLess(mcall.out.weight, mcall.further.weight)
                 /\ (Excess(mcall.rel_px, mcall.len) + 1) * FracDen <= 700 * mcall.half
                       => /\ ~mcall.out.weight.zero
                          /\ ~mcall.further.weight.zero
                          /\ WLess(mcall.further.weight, mcall.out.weight)

\* C2, witness: a coordinate past the upper end got the weight exp(-1/half),
\* and the coordinate one further a smaller one.
C2_Witness ==
    /\ mcall.fn = "falloff"
    /\ mcall.rel_px = mcall.len
    /\ mcall.out.safe_rel_x = mcall.len - 1
    /\ mcall.out.weight = [zero |-> FALSE, n |-> -FracDen, d |-> mcall.half]
    /\ WLess(mcall.further.weight, mcall.out.weight)

\* v is the k-th smallest (k = 1, 2, ...) of the values of flat.
IsKthSmallest(flat, k, v) ==
    /\ \E i \in DOMAIN flat : flat[i] = v
    /\ Cardinality({i \in DOMAIN flat : flat[i] < v}) <= k - 1
    /\ Cardinality({i \in DOMAIN flat : flat[i] <= v}) >= k

\* C7 as stated: for n = 2m values the median is the m-th smallest (lower
\* median), for odd n the middle value.
C7_AsStated ==
    mcall.fn = "median" =>
        LET flat == Flatten(mcall.img)
            n == Len(flat)
        IN  IsKthSmallest(flat, (n + 1) \div 2, mcall.median)

\* C7, amended: calculate_median returns the element at index n/2 (0-based)
\* of the sorted values: for odd n the middle value, for n = 2m values the
\* (m+1)-th smallest (the upper median).
C7_UpperMedian ==
    mcall.fn = "median" =>
        LET flat == Flatten(mcall.img)
            n == Len(flat)
        IN  IsKthSmallest(flat, n \div 2 + 1, mcall.median)

\* C7, witness: a grid of an even number of values whose two middle values
\* differ, the median being the larger.
C7_Witness ==
    /\ mcall.fn = "median"
    /\ LET flat == Flatten(mcall.img)
           n == Len(flat)
       IN  /\ n % 2 = 0
           /\ ~IsKthSmallest(flat, n \div 2, mcall.median)
           /\ IsKthSmallest(flat, n \div 2 + 1, mcall.median)

\* C8: fill_green_fct assigns every cell of an H x W kernel, H, W >= 1, and
\* writes no cell outside it; kernel[i][j] = kernel[(H-i) mod H][(W-j) mod W]
\* for all cells, and the cell (0, 0), and only it, holds the cut constant.
C8_KernelSymmetric ==
    mcall.fn = "fill_green_fct" =>
        LET g == mcall.kernel
        IN  /\ g.written = Cells(g.rows, g.cols)
            /\ ~g.oob
            /\ \A rc \in Cells(g.rows, g.cols) :
                  /\ g.at[rc] = g.at[<<(g.rows - rc[1]) % g.rows,
                                       (g.cols - rc[2]) % g.cols>>]
                  /\ g.at[rc] = 0 <=> rc = <<0, 0>>
                  /\ g.at[rc] # ZeroCell

\* C8, witness: a kernel of an even number of rows and an odd number of
\* columns was filled.
C8_Witness ==
    /\ mcall.fn = "fill_green_fct"
    /\ mcall.kernel.rows % 2 = 0
    /\ mcall.kernel.cols % 2 = 1
    /\ mcall.kernel.cols >= 3
    /\ mcall.kernel.written = Cells(mcall.kernel.rows, mcall.kernel.cols)

---------------------------------------------------------------------------
(* lens.cpp: sourceT.  A double is the fixed-point number v / FracDen; an
   image is a grid of rows x cols cells, each holding the three channel bytes;
   an int[2] array is the tuple <<[0], [1]>>. *)

MaxImg == 2
MaxPos == 1

\* cvRound: the nearest integer, a tie goes to the even one.
cvRound(num, den) ==
    LET fl == Floor(num, den)
        rem == num - fl * den
    IN  IF 2 * rem < den THEN fl
        ELSE IF 2 * rem > den THEN fl + 1
        ELSE IF fl % 2 = 0 THEN fl
        ELSE fl + 1

\* An image file's content: no byte is 0, no two neighbours are equal.
SamplePixel(idx) ==
    <<((25 * idx) % 255) + 1, 255 - ((20 * idx) % 255), ((3 + 7 * idx) % 255) + 1>>

SampleImage(rows, cols) ==
    [rows |-> rows, cols |-> cols,
     at |-> [rc \in Cells(rows, cols) |-> SamplePixel(rc[1] * cols + rc[2])]]

Black == <<0, 0, 0>>

\* cv::resize(src, dst, cv::Size(), factor, factor): dst has
\* cvRound(cols * factor) x cvRound(rows * factor) cells; each is resampled
\* from src (here: from the cell its position scales back to).
cv_resize(img, factor) ==
    LET dcols == cvRound(img.cols * factor, FracDen)
        drows == cvRound(img.rows * factor, FracDen)
    IN  [rows |-> drows, cols |-> dcols,
         at |-> [rc \in Cells(drows, dcols) |->
                    img.at[<<Min(img.rows - 1, (rc[1] * img.rows) \div drows),
                             Min(img.cols - 1, (rc[2] * img.cols) \div dcols)>>]]]

\* void sourceT::move(int x_pos, int y_pos).
sourceT_move(s, x_pos, y_pos) ==
    LET origin == <<x_pos - s.w \div 2, y_pos - s.h \div 2>>
    IN  [s EXCEPT !.pos = <<x_pos, y_pos>>,
                  !.origin = origin,
                  !.end_points = <<origin[1] + s.w, origin[2] + s.h>>]

\* sourceT::sourceT(Mat &imageRGB_, int x_pos, int y_pos).
sourceT(imageRGB_, x_pos, y_pos) ==
    sourceT_move([imageRGB |-> imageRGB_, channels |-> imageRGB_,
                  w |-> imageRGB_.cols, h |-> imageRGB_.rows,
                  pos |-> <<0, 0>>, origin |-> <<0, 0>>,
                  end_points |-> <<0, 0>>],
                 x_pos, y_pos)

\* A faulty variant: the new size is the factor times the current size.
resize_area_mut(s, factor) ==
    LET orig_xpos == s.origin[1] + s.w \div 2
        orig_ypos == s.origin[2] + s.h \div 2
        w == StaticCastInt(s.w * factor, FracDen)
        h == StaticCastInt(s.h * factor, FracDen)
        channels == IF w > 0 /\ h > 0 THEN cv_resize(s.imageRGB, factor)
                    ELSE s.channels
    IN  sourceT_move([s EXCEPT !.w = w, !.h = h, !.channels = channels],
                     orig_xpos, orig_ypos)

\* void sourceT::resize_area(double factor), factor >= 0.
resize_area(s, factor) ==
    LET orig_xpos == s.origin[1] + s.w \div 2
        orig_ypos == s.origin[2] + s.h \div 2
        w == StaticCastInt(s.imageRGB.cols * factor, FracDen)
        h == StaticCastInt(s.imageRGB.rows * factor, FracDen)
        channels == IF w > 0 /\ h > 0 THEN cv_resize(s.imageRGB, factor)
                    ELSE s.channels
    IN  sourceT_move([s EXCEPT !.w = w, !.h = h, !.channels = channels],
                     orig_xpos, orig_ypos)

\* A faulty variant: the lower bounds are inclusive.
sourceT_contains_mut(s, x_, y_) ==
    LET x == StaticCastInt(x_, FracDen)
        y == StaticCastInt(y_ + HalfDen, FracDen)
    IN  /\ s.origin[1] <= x /\ x < s.end_points[1]
        /\ s.origin[2] <= y /\ y < s.end_points[2]

\* bool sourceT::contains(double x_, double y_).
sourceT_contains(s, x_, y_) ==
    LET x == StaticCastInt(x_, FracDen)
        y == StaticCastInt(y_ + HalfDen, FracDen)
    IN  /\ s.origin[1] < x /\ x < s.end_points[1]
        /\ s.origin[2] < y /\ y < s.end_points[2]

\* channels[c].at<uchar>(row, col), all three c at once; a read outside the
\* grid yields bytes of no defined value (here 0), and is recorded by the caller.
ChannelsAt(channels, row, col) ==
    IF <<row, col>> \in Cells(channels.rows, channels.cols)
    THEN channels.at[<<row, col>>]
    ELSE Black

\* The interpolation of get_linear_interpolated_pixel once the four
\* neighbour indices are fixed: the coefficients are numerators over
\* FracDen^2, the conversion to uchar truncates.
Interpolate(s, fl1, fl2, low1, low2, up1, up2, rel_beta1, rel_beta2) ==
    LET x == rel_beta1 - fl1 * FracDen
        y == rel_beta2 - fl2 * FracDen
        xy == x * y
        one == FracDen * FracDen
        c00 == one - x * FracDen - y * FracDen + xy
        c01 == x * FracDen - xy
        c10 == y * FracDen - xy
        c11 == xy
        I00 == ChannelsAt(s.channels, low2, low1)
        I01 == ChannelsAt(s.channels, low2, up1)
        I10 == ChannelsAt(s.channels, up2, low1)
        I11 == ChannelsAt(s.channels, up2, up1)
    IN  [val |-> [c \in 1 .. 3 |->
                    StaticCastInt(I00[c] * c00 + I01[c] * c01
                                  + I10[c] * c10 + I11[c] * c11, one)],
         inside |-> TRUE,
         reads |-> {<<low2, low1>>, <<low2, up1>>, <<up2, low1>>, <<up2, up1>>}]

\* A faulty variant: the upper neighbours are not relocated.
get_linear_interpolated_pixel_mut(s, beta1, beta2) ==
    IF ~sourceT_contains(s, beta1, beta2)
    THEN [val |-> Black, inside |-> FALSE, reads |-> {}]
    ELSE LET rel_beta1 == beta1 - s.origin[1] * FracDen
             rel_beta2 == beta2 - s.origin[2] * FracDen
             fl1 == Floor(rel_beta1, FracDen)
             fl2 == Floor(rel_beta2, FracDen)
         IN  Interpolate(s, fl1, fl2,
                         relocate(fl1 * FracDen, s.w), relocate(fl2 * FracDen, s.h),
                         fl1 + 1, fl2 + 1, rel_beta1, rel_beta2)

\* cv::Vec3b sourceT::get_linear_interpolated_pixel(double beta1, double beta2);
\* val is the pixel returned, reads the cells of the channel grids it read.
get_linear_interpolated_pixel(s, beta1, beta2) ==
    IF ~sourceT_contains(s, beta1, beta2)
    THEN [val |-> Black, inside |-> FALSE, reads |-> {}]
    ELSE LET rel_beta1 == beta1 - s.origin[1] * FracDen
             rel_beta2 == beta2 - s.origin[2] * FracDen
             fl1 == Floor(rel_beta1, FracDen)
             fl2 == Floor(rel_beta2, FracDen)
         IN  Interpolate(s, fl1, fl2,
                         relocate(fl1 * FracDen, s.w), relocate(fl2 * FracDen, s.h),
                         relocate((fl1 + 1) * FracDen, s.w),
                         relocate((fl2 + 1) * FracDen, s.h),
                         rel_beta1, rel_beta2)

---------------------------------------------------------------------------
(* A source on its own: constructed from an image, then moved, resized and
   queried in any order *)

\* The scale factors tried: 0, 1/FracDen, 1/2, 1/2 + 1/FracDen, 1, 3/2, 2.
SampleFactors ==
    {0, 1, HalfDen, HalfDen + 1, FracDen, FracDen + HalfDen, 2 * FracDen}

\* The coordinates queried along one axis: the integers and the midpoints
\* from one pixel before the origin to one pixel past the end point.
ProbeCoords(o, len) == {o * FracDen + k * HalfDen : k \in -2 .. 2 * (len + 1)}

SourceOnly ==
    /\ mcall = NoCall
    /\ UNCHANGED <<mcall, lens, lquery, screen, pc, job>>

InitSource ==
    /\ mcall = NoCall
    /\ \E rows \in 1 .. MaxImg, cols \in 1 .. MaxImg,
          x_pos \in -MaxPos .. MaxPos, y_pos \in -MaxPos .. MaxPos :
          source = sourceT(SampleImage(rows, cols), x_pos, y_pos)
    /\ squery = IdleQuery
    /\ lens = IdleLens
    /\ lquery = IdleQuery
    /\ screen = IdleScreen
    /\ pc = "idle"
    /\ job = NoJob

\* source.move(x_pos, y_pos).
SourceMove ==
    /\ squery = IdleQuery
    /\ \E x_pos \in -MaxPos .. MaxPos, y_pos \in -MaxPos .. MaxPos :
          source' = sourceT_move(source, x_pos, y_pos)
    /\ UNCHANGED squery
    /\ SourceOnly

\* source.resize_area(factor).
SourceResize ==
    /\ squery = IdleQuery
    /\ \E factor \in SampleFactors : source' = resize_area(source, factor)
    /\ UNCHANGED squery
    /\ SourceOnly

\* source.contains(x_, y_).
QueryContains ==
    /\ squery = IdleQuery
    /\ \E x_ \in ProbeCoords(source.origin[1], source.w),
          y_ \in ProbeCoords(source.origin[2], source.h) :
          squery' = [fn |-> "contains", x |-> x_, y |-> y_,
                     result |-> sourceT_contains(source, x_, y_)]
    /\ UNCHANGED source
    /\ SourceOnly

\* source.get_linear_interpolated_pixel(beta1, beta2).
QueryPixel ==
    /\ squery = IdleQuery
    /\ \E beta1 \in ProbeCoords(source.origin[1], source.w),
          beta2 \in ProbeCoords(source.origin[2], source.h) :
          squery' = [fn |-> "pixel", x |-> beta1, y |-> beta2,
                     result |-> get_linear_interpolated_pixel(source, beta1, beta2)]
    /\ UNCHANGED source
    /\ SourceOnly

\* The query returns to its caller.
QueryReturn ==
    /\ squery # IdleQuery
    /\ squery' = IdleQuery
    /\ UNCHANGED source
    /\ SourceOnly

NextSource ==
    \/ SourceMove
    \/ SourceResize
    \/ QueryContains
    \/ QueryPixel
    \/ QueryReturn

SpecSource == InitSource /\ [][NextSource]_vars

\* The query was made at the point (x, y) given in whole pixels.
QueriedAt(x, y) == squery.x = x * FracDen /\ squery.y = y * FracDen

C4_AsStated ==
    squery.fn = "pixel" =>
        \A r \in 0 .. source.h - 1, c \in 0 .. source.w - 1 :
            LET ox == source.origin[1]
                oy == source.origin[2]
                a == ChannelsAt(source.channels, r, c)
                b == ChannelsAt(source.channels, r, c + 1)
            IN  /\ QueriedAt(ox + c, oy + r) => squery.result.val = a
                /\ ( /\ c + 1 < source.w
                     /\ squery.x = (ox + c) * FracDen + HalfDen
                     /\ squery.y = (oy + r) * FracDen )
                   => \A k \in 1 .. 3 :
                         2 * squery.result.val[k] - (a[k] + b[k]) \in -2 .. 2

\* C5: get_linear_interpolated_pixel returns black, reading nothing, wherever
\* contains() is false, and wherever contains() is true the four neighbour
\* cells it reads are cells of the working channel grids, after any sequence
\* of moves and resizes.
C5_BlackOutsideReadsInside ==
    squery.fn = "pixel" =>
        /\ squery.result.inside = sourceT_contains(source, squery.x, squery.y)
        /\ ~squery.result.inside =>
              squery.result.val = Black /\ squery.result.reads = {}
        /\ squery.result.inside =>
              /\ squery.result.reads # {}
              /\ squery.result.reads \subseteq
                    Cells(source.channels.rows, source.channels.cols)

\* C5, witness: a pixel of the last column of a resized source is read,
\* whose right neighbour is relocated into the grid.
C5_Witness ==
    /\ squery.fn = "pixel"
    /\ squery.result.inside
    /\ source.w # source.imageRGB.cols
    /\ Floor(squery.x - source.origin[1] * FracDen, FracDen) = source.w - 1
    /\ \A rc \in squery.result.reads : rc[2] = source.w - 1

---------------------------------------------------------------------------
(* lens.cpp: lensT, the derivation of the lens fields.  A grid of doubles is
   [rows, cols, den, at]: the cell rc holds at[rc] / den.  The arithmetic of
   the construction is exact on these fractions; log and sqrt are rounded as
   said where they are modelled. *)

MaxLens == 4

\* log(k) in units of 1/1000, rounded, for k = 1 .. 128.
LogMilli ==
   <<
      0, 693, 1099, 1386, 1609, 1792, 1946, 2079, 2197, 2303, 2398, 2485,
      2565, 2639, 2708, 2773, 2833, 2890, 2944, 2996, 3045, 3091, 3135, 3178,
      3219, 3258, 3296, 3332, 3367, 3401, 3434, 3466, 3497, 3526, 3555, 3584,
      3611, 3638, 3664, 3689, 3714, 3738, 3761, 3784, 3807, 3829, 3850, 3871,
      3892, 3912, 3932, 3951, 3970, 3989, 4007, 4025, 4043, 4060, 4078, 4094,
      4111, 4127, 4143, 4159, 4174, 4190, 4205, 4220, 4234, 4248, 4263, 4277,
      4290, 4304, 4317, 4331, 4344, 4357, 4369, 4382, 4394, 4407, 4419, 4431,
      4443, 4454, 4466, 4477, 4489, 4500, 4511, 4522, 4533, 4543, 4554, 4564,
      4575, 4585, 4595, 4605, 4615, 4625, 4635, 4644, 4654, 4663, 4673, 4682,
      4691, 4700, 4710, 4718, 4727, 4736, 4745, 4754, 4762, 4771, 4779, 4787,
      4796, 4804, 4812, 4820, 4828, 4836, 4844, 4852
   >>

\* The kernel holds its values in units of 1/GreenDen.
GreenDen == 10

\* val = -1.4658711977588554, the cut at theta = 0.01, in units of 1/GreenDen.
GreenCut == -15

\* val = factor * log(sqrt(i_sq + j*j)) = log(key) / (2 pi), rounded to 1/GreenDen.
GreenValue(key) ==
    IF key = 0 THEN GreenCut
    ELSE cvRound(LogMilli[key] * GreenDen, 6283)

\* The numbers of the form 2^a 3^b 5^c.
RECURSIVE IsDFTSize(_)
IsDFTSize(n) ==
    IF n = 1 THEN TRUE
    ELSE IF n % 2 = 0 THEN IsDFTSize(n \div 2)
    ELSE IF n % 3 = 0 THEN IsDFTSize(n \div 3)
    ELSE IF n % 5 = 0 THEN IsDFTSize(n \div 5)
    ELSE FALSE

\* cv::getOptimalDFTSize(n), n >= 1.
getOptimalDFTSize(n) ==
    CHOOSE m \in n .. 2 * n :
        IsDFTSize(m) /\ \A k \in n .. m - 1 : ~IsDFTSize(k)

\* The cell of a grid, 0 (of no defined value) outside it.
\* The sum of term[rc] over the cells rc of S.
RECURSIVE SumOver(_, _)
SumOver(term, S) ==
    IF S = {} THEN 0
    ELSE LET rc == CHOOSE x \in S : TRUE
         IN  term[rc] + SumOver(term, S \ {rc})

\* The kernel G filled by fill_green_fct, as numbers.
GreenKernel(rows, cols) ==
    LET g == fill_green_fct(rows, cols)
    IN  Grid(rows, cols, GreenDen,
            [rc \in Cells(rows, cols) |->
                LET r == rc[1]
                    c == rc[2]
                IN  IF g.at[<<r, c>>] = ZeroCell THEN 0
                    ELSE GreenValue(g.at[<<r, c>>])])

\* A faulty variant: every cell of the potential is off by one unit.
compute_psi_from_kappa_mut(kappa) ==
    LET orig_w == kappa.cols
        orig_h == kappa.rows
        opt_2w == getOptimalDFTSize(2 * orig_w)
        opt_2h == getOptimalDFTSize(2 * orig_h)
        G == GreenKernel(opt_2h, opt_2w)
    IN  Grid(orig_h, orig_w, kappa.den * G.den,
            [rc \in Cells(orig_h, orig_w) |->
                LET r == rc[1]
                    c == rc[2]
                IN  1 + SumOver([kc \in Cells(orig_h, orig_w) |->
                                kappa.at[kc] * G.at[<<(r - kc[1]) % opt_2h,
                                                      (c - kc[2]) % opt_2w>>]],
                            Cells(orig_h, orig_w))])

\* cv::dft of G and of the zero-padded kappa, cv::mulSpectrums and cv::idft
\* with DFT_SCALE: the circular convolution of the two opt_2h x opt_2w grids,
\* of which kappa is non-zero in its orig_h x orig_w corner only; then the
\* crop to that corner.
compute_psi_from_kappa(kappa) ==
    LET orig_w == kappa.cols
        orig_h == kappa.rows
        opt_2w == getOptimalDFTSize(2 * orig_w)
        opt_2h == getOptimalDFTSize(2 * orig_h)
        G == GreenKernel(opt_2h, opt_2w)
    IN  Grid(orig_h, orig_w, kappa.den * G.den,
            [rc \in Cells(orig_h, orig_w) |->
                LET r == rc[1]
                    c == rc[2]
                IN  SumOver([kc \in Cells(orig_h, orig_w) |->
                                kappa.at[kc] * G.at[<<(r - kc[1]) % opt_2h,
                                                      (c - kc[2]) % opt_2w>>]],
                            Cells(orig_h, orig_w))])

\* The largest integer whose square is at most n, given lo * lo <= n < hi * hi.
RECURSIVE SqrtBetween(_, _, _)
SqrtBetween(n, lo, hi) ==
    IF hi - lo <= 1 THEN lo
    ELSE LET mid == (lo + hi) \div 2
         IN  IF mid * mid <= n THEN SqrtBetween(n, mid, hi)
             ELSE SqrtBetween(n, lo, mid)

\* sqrt(n) rounded down, 0 <= n < 2^31.
IntSqrt(n) == SqrtBetween(n, 0, Min(n + 1, 46341))

\* lensT::compute_derivatives_from_psi(): alpha1, alpha2 and the shear
\* sqrt(0.25 * diff^2 + psi_12^2) = sqrt(diff^2 + 4 * psi_12^2) / 2.
compute_derivatives_from_psi(l) ==
    LET alpha1 == deriv_x(l.psi)
        alpha2 == deriv_y(l.psi)
        psi_11 == deriv_x(alpha1)
        psi_22 == deriv_y(alpha2)
        psi_12 == deriv_y(alpha1)
    IN  [l EXCEPT
           !.alpha1 = alpha1,
           !.alpha2 = alpha2,
           !.shear = Grid(l.psi.rows, l.psi.cols, 2 * psi_11.den,
                         [rc \in Cells(l.psi.rows, l.psi.cols) |->
                             LET r == rc[1]
                                 c == rc[2]
                             IN  LET diff == psi_11.at[<<r, c>>] - psi_22.at[<<r, c>>]
                                 p12 == psi_12.at[<<r, c>>]
                             IN  IntSqrt(diff * diff + 4 * p12 * p12)])]

\* void lensT::move(int x_pos, int y_pos).
lensT_move(l, x_pos, y_pos) ==
    LET origin == <<x_pos - l.w \div 2, y_pos - l.h \div 2>>
    IN  [l EXCEPT !.origin = origin,
                  !.end_points = <<origin[1] + l.w, origin[2] + l.h>>]

\* A faulty variant: the lower bounds are inclusive.
lensT_contains_mut(l, x, y) ==
    /\ l.origin[1] <= x /\ x < l.end_points[1]
    /\ l.origin[2] <= y /\ y < l.end_points[2]

\* A faulty variant: the upper bounds are inclusive.
lensT_contains_upper(l, x, y) ==
    /\ l.origin[1] < x /\ x <= l.end_points[1]
    /\ l.origin[2] < y /\ y <= l.end_points[2]

\* bool lensT::contains(int x, int y).
lensT_contains(l, x, y) ==
    /\ l.origin[1] < x /\ x < l.end_points[1]
    /\ l.origin[2] < y /\ y < l.end_points[2]

\* weight = weight_int / 20.
WeightDen == 20

\* A faulty variant: the lens-relative coordinates are deflected.
raytrace_pixel_mut(l, x1, x2, rel1_safe, rel2_safe, scale_fac) ==
    LET den == l.alpha1.den * FracDen * WeightDen
    IN  [den |-> den,
         y1 |-> rel1_safe * den
                - GridAt(l.alpha1, rel2_safe, rel1_safe) * scale_fac * l.weight,
         y2 |-> rel2_safe * den
                - GridAt(l.alpha2, rel2_safe, rel1_safe) * scale_fac * l.weight]

\* void lensT::raytrace_pixel(x1, x2, rel1_safe, rel2_safe, scale_fac, y1, y2):
\* the source plane position (y1 / den, y2 / den); scale_fac is a numerator
\* over FracDen, weight one over WeightDen.
raytrace_pixel(l, x1, x2, rel1_safe, rel2_safe, scale_fac) ==
    LET den == l.alpha1.den * FracDen * WeightDen
    IN  [den |-> den,
         y1 |-> x1 * den
                - GridAt(l.alpha1, rel2_safe, rel1_safe) * scale_fac * l.weight,
         y2 |-> x2 * den
                - GridAt(l.alpha2, rel2_safe, rel1_safe) * scale_fac * l.weight]

\* The smallest and the largest cell of a byte grid (cv::minMaxIdx).
GridMin(at) == CHOOSE v \in {at[rc] : rc \in DOMAIN at} :
                  \A rc \in DOMAIN at : v <= at[rc]
GridMax(at) == CHOOSE v \in {at[rc] : rc \in DOMAIN at} :
                  \A rc \in DOMAIN at : v >= at[rc]

\* convertTo(CV_64F) and normalize(kappa_in, kappa_in, 2, 0, cv::NORM_MINMAX):
\* (v - smin) * 2 / (smax - smin), and 0 where smax = smin; the quotient is
\* rounded to the fixed point.
NormalizeMinMax(in) ==
    LET smin == GridMin(in.at)
        smax == GridMax(in.at)
    IN  Grid(in.rows, in.cols, FracDen,
            [rc \in Cells(in.rows, in.cols) |->
                LET r == rc[1]
                    c == rc[2]
                IN  IF smax - smin > 0
                THEN cvRound(2 * FracDen * (in.at[<<r, c>>] - smin), smax - smin)
                ELSE 0])

\* saturate_cast<uchar>.
SaturateUchar(v) == Max(0, Min(255, v))

\* cv::log, += 2.5, *= 70 and convertTo(CV_8U) of the cell v / FracDen; the
\* log of 0 is -infinity and of a negative number NaN, both converted to 0.
LogDisplayByte(v) ==
    IF v <= 0 THEN 0
    ELSE SaturateUchar(cvRound(70 * (LogMilli[v] - LogMilli[FracDen] + 2500), 1000))

ByteGrid(rows, cols, at) == [rows |-> rows, cols |-> cols, at |-> at]

EmptyByteGrid == [rows |-> 0, cols |-> 0, at |-> <<>>]

\* lensT::lensT(Mat &kappa_in, int x, int y) up to the first extraction of the
\* critical curves; kappa_in is [depth, rows, cols, at], its cells bytes for
\* CV_8U and numerators over FracDen for CV_64F.
lensT_fields(kappa_in, x, y) ==
    LET moved == lensT_move([w |-> kappa_in.cols, h |-> kappa_in.rows,
                             origin |-> <<0, 0>>, end_points |-> <<0, 0>>,
                             weight |-> WeightDen,
                             kappa_in |-> kappa_in,
                             kappa |-> EmptyGrid, kappa8u |-> EmptyByteGrid,
                             psi |-> EmptyGrid, alpha1 |-> EmptyGrid,
                             alpha2 |-> EmptyGrid, shear |-> EmptyGrid,
                             cc_map |-> EmptyByteGrid,
                             caustic_map |-> EmptyByteGrid,
                             cc_weight |-> 0, cc_radial |-> FALSE],
                            x, y)
        kappa == IF kappa_in.depth = "CV_8U" THEN NormalizeMinMax(kappa_in)
                 ELSE Grid(kappa_in.rows, kappa_in.cols, FracDen,
                          [rc \in Cells(kappa_in.rows, kappa_in.cols) |->
                              LET r == rc[1]
                                  c == rc[2]
                              IN  kappa_in.at[<<r, c>>]])
        kappa8u == IF kappa_in.depth = "CV_8U"
                   THEN ByteGrid(kappa_in.rows, kappa_in.cols,
                            [rc \in Cells(kappa_in.rows, kappa_in.cols) |->
                                LET r == rc[1]
                                    c == rc[2]
                                IN  kappa_in.at[<<r, c>>]])
                   ELSE ByteGrid(kappa_in.rows, kappa_in.cols,
                            [rc \in Cells(kappa_in.rows, kappa_in.cols) |->
                                LET r == rc[1]
                                    c == rc[2]
                                IN  LogDisplayByte(kappa_in.at[<<r, c>>])])
    IN  compute_derivatives_from_psi(
            [moved EXCEPT !.kappa = kappa, !.kappa8u = kappa8u,
                          !.psi = compute_psi_from_kappa(kappa)])

Sign(v) == IF v > 0 THEN 1 ELSE IF v < 0 THEN -1 ELSE 0

\* The sign of detJ at a cell: tan_eigenval = 1 - weight * (kappa + shear),
\* rad_eigenval = 1 - weight * (kappa - shear), and detJ their product if
\* the radial lines are included, else tan_eigenval.
DetJSign(l, include_radial_lines, rc) ==
    LET one == WeightDen * l.kappa.den * l.shear.den
        k == l.kappa.at[rc] * l.shear.den
        sh == l.shear.at[rc] * l.kappa.den
        tan_eigenval == one - l.weight * (k + sh)
        rad_eigenval == one - l.weight * (k - sh)
    IN  IF include_radial_lines THEN Sign(tan_eigenval) * Sign(rad_eigenval)
        ELSE Sign(tan_eigenval)

\* Contours as drawContours may leave them in a map of h x w cells: none,
\* a pixel with an anti-aliased (gray) neighbour, the border.
SampleMasks(h, w) ==
    { ByteGrid(h, w,
          [rc \in Cells(h, w) |->
              LET r == rc[1]
                  c == rc[2]
              IN  0]),
      ByteGrid(h, w,
          [rc \in Cells(h, w) |->
              LET r == rc[1]
                  c == rc[2]
              IN  IF r = h \div 2 /\ c = w \div 2 THEN 255
                                   ELSE IF r = h \div 2 /\ c = w \div 2 + 1 THEN 128
                                   ELSE 0]),
      ByteGrid(h, w,
          [rc \in Cells(h, w) |->
              LET r == rc[1]
                  c == rc[2]
              IN  IF r \in {0, h - 1} \/ c \in {0, w - 1} THEN 255
                                   ELSE 0]) }

\* The maps that cv::GaussianBlur, binary_img_from_sign, findContours and
\* drawContours can leave in cc_map: smoothing a detJ that is positive at
\* every cell leaves it positive, so that no cell is marked and no contour
\* is found; any other detJ may yield any contours.
ContourMasks(l, include_radial_lines) ==
    IF \A rc \in Cells(l.kappa.rows, l.kappa.cols) :
          DetJSign(l, include_radial_lines, rc) > 0
    THEN {ByteGrid(l.kappa.rows, l.kappa.cols,
              [rc \in Cells(l.kappa.rows, l.kappa.cols) |->
                  LET r == rc[1]
                      c == rc[2]
                  IN  0])}
    ELSE SampleMasks(l.kappa.rows, l.kappa.cols)

\* static_cast<int>(beta + 0.5) of beta = y / den.
RoundedCoord(y, den) == StaticCastInt(2 * y + den, 2 * den)

\* A faulty variant: the primary cell is marked without the dilation.
CausticWrites_primary(l, cc_map, i, j) ==
    LET beta == raytrace_pixel(l, j, i, j, i, FracDen)
        b1 == RoundedCoord(beta.y1, beta.den)
        b2 == RoundedCoord(beta.y2, beta.den)
    IN  IF /\ cc_map.at[<<i, j>>] > 0
           /\ 0 <= b1 /\ b1 < l.w /\ 0 <= b2 /\ b2 < l.h
        THEN {<<b2, b1>>}
        ELSE {}

\* A faulty variant: the dilation marks the diagonal neighbour as well.
CausticWrites_mut(l, cc_map, i, j) ==
    LET width == l.w
        height == l.h
        beta == raytrace_pixel(l, j, i, j, i, FracDen)
        b1 == RoundedCoord(beta.y1, beta.den)
        b2 == RoundedCoord(beta.y2, beta.den)
    IN  IF /\ cc_map.at[<<i, j>>] > 0
           /\ 0 <= b1 /\ b1 < width /\ 0 <= b2 /\ b2 < height
        THEN {<<b2, b1>>,
              <<relocate_int(b2 - 1, height), b1>>,
              <<b2, relocate_int(b1 - 1, width)>>,
              <<relocate_int(b2 + 1, height), relocate_int(b1 + 1, width)>>}
        ELSE {}

\* The cells of caustic_map that invert_cc_map::operator() writes for the
\* pixel (j, i) of the critical curve map.
CausticWrites(l, cc_map, i, j) ==
    LET width == l.w
        height == l.h
        beta == raytrace_pixel(l, j, i, j, i, FracDen)
        b1 == RoundedCoord(beta.y1, beta.den)
        b2 == RoundedCoord(beta.y2, beta.den)
    IN  IF /\ cc_map.at[<<i, j>>] > 0
           /\ 0 <= b1 /\ b1 < width /\ 0 <= b2 /\ b2 < height
        THEN {<<b2, b1>>,
              <<relocate_int(b2 - 1, height), b1>>,
              <<b2, relocate_int(b1 - 1, width)>>}
        ELSE {}

\* caustic_map = Mat::zeros(h, w) and the parallel_for_ of invert_cc_map
\* over its rows: every write stores 255.
invert_cc_map(l, cc_map) ==
    LET written == UNION {CausticWrites(l, cc_map, rc[1], rc[2]) :
                            rc \in Cells(l.h, l.w)}
    IN  ByteGrid(l.h, l.w,
            [rc \in Cells(l.h, l.w) |->
                LET r == rc[1]
                    c == rc[2]
                IN  IF <<r, c>> \in written THEN 255 ELSE 0])

\* A faulty variant: the inversion traces the rays with the weight 1.
update_cc_and_caustics_mut(l, include_radial_lines, drawn) ==
    [l EXCEPT !.cc_map = drawn,
              !.caustic_map = invert_cc_map([l EXCEPT !.weight = WeightDen], drawn),
              !.cc_weight = l.weight,
              !.cc_radial = include_radial_lines]

\* A faulty variant: the contours are drawn into the display map of the
\* convergence as well.
update_cc_and_caustics_drawing(l, include_radial_lines, drawn) ==
    [l EXCEPT !.kappa8u = drawn,
              !.cc_map = drawn,
              !.caustic_map = invert_cc_map(l, drawn),
              !.cc_weight = l.weight,
              !.cc_radial = include_radial_lines]

\* void lensT::update_cc_and_caustics(bool include_radial_lines), drawn
\* being the contours that the extraction draws.
update_cc_and_caustics(l, include_radial_lines, drawn) ==
    LET derived == IF l.shear.cols = 0 THEN compute_derivatives_from_psi(l) ELSE l
    IN  [derived EXCEPT !.cc_map = drawn,
                        !.caustic_map = invert_cc_map(derived, drawn),
                        !.cc_weight = l.weight,
                        !.cc_radial = include_radial_lines]

\* The lenses that lensT::lensT(kappa_in, x, y) can construct.
lensT(kappa_in, x, y) ==
    LET l == lensT_fields(kappa_in, x, y)
    IN  {update_cc_and_caustics(l, TRUE, drawn) : drawn \in ContourMasks(l, TRUE)}

---------------------------------------------------------------------------
(* A lens on its own: constructed from a convergence map, then moved,
   reweighted and ray-traced in any order *)

KappaIn(depth, rows, cols, at) ==
    [depth |-> depth, rows |-> rows, cols |-> cols, at |-> at]

\* The convergence maps read: the all-zero 4 x 4 map, a single peak, a ramp,
\* each as bytes and as doubles.
SampleKappa ==
    { KappaIn("CV_8U", 4, 4,
          [rc \in Cells(4, 4) |->
              LET r == rc[1]
                  c == rc[2]
              IN  0]),
      KappaIn("CV_64F", 4, 4,
          [rc \in Cells(4, 4) |->
              LET r == rc[1]
                  c == rc[2]
              IN  0]),
      KappaIn("CV_8U", 3, 3,
          [rc \in Cells(3, 3) |->
              LET r == rc[1]
                  c == rc[2]
              IN  IF r = 1 /\ c = 1 THEN 255 ELSE 0]),
      KappaIn("CV_64F", 3, 4,
          [rc \in Cells(3, 4) |->
              LET r == rc[1]
                  c == rc[2]
              IN  IF r = 1 /\ c = 2 THEN 2 * FracDen ELSE 0]),
      KappaIn("CV_8U", MaxLens, MaxLens,
          [rc \in Cells(MaxLens, MaxLens) |->
              LET r == rc[1]
                  c == rc[2]
              IN  30 * (r + c)]),
      KappaIn("CV_64F", MaxLens, 3,
          [rc \in Cells(MaxLens, 3) |->
              LET r == rc[1]
                  c == rc[2]
              IN  r + c]) }

\* Positions of the Kappa weight trackbar.
SampleWeights == {0, 10, 100}

\* The scale factors 0, 1/2 and 1.
SampleScales == {0, HalfDen, FracDen}

---------------------------------------------------------------------------
(* The field math utilities and the derivation of the lens fields, called
   with arguments from bounded sets *)

\* The factors by which a convergence grid is scaled.
SampleScalings == {-2, -1, 0, 1, 3}

\* The grid f with every cell multiplied by k.
ScaleGrid(f, k) ==
    Grid(f.rows, f.cols, f.den, [rc \in Cells(f.rows, f.cols) |-> k * f.at[rc]])

\* The potential, the deflection and the shear grids that the constructor
\* derives from the CV_64F convergence grid kappa: compute_psi_from_kappa,
\* then compute_derivatives_from_psi.
DerivedFields(kappa) ==
    LET l == compute_derivatives_from_psi(
                 [psi |-> compute_psi_from_kappa(kappa), alpha1 |-> EmptyGrid,
                  alpha2 |-> EmptyGrid, shear |-> EmptyGrid])
    IN  [psi |-> l.psi, alpha1 |-> l.alpha1, alpha2 |-> l.alpha2,
         shear |-> l.shear]

\* The fields of a double-valued convergence grid and those of the grid
\* scaled by k.
CallFields ==
    /\ \E kappa_in \in {g \in SampleKappa : g.depth = "CV_64F"},
          k \in SampleScalings :
          LET kappa == Grid(kappa_in.rows, kappa_in.cols, FracDen, kappa_in.at)
          IN  mcall' = [fn |-> "fields", k |-> k, kappa |-> kappa,
                        base |-> DerivedFields(kappa),
                        scaled |-> DerivedFields(ScaleGrid(kappa, k))]
    /\ MathOnly

NextMath ==
    \/ CallRelocate
    \/ CallRelocateNonFinite
    \/ CallRelocateInt
    \/ CallFallOff
    \/ CallMedian
    \/ CallFillGreen
    \/ CallDeriv
    \/ CallFields

SpecMath == InitMath /\ [][NextMath]_vars

---------------------------------------------------------------------------
(* The actions of a lens on its own *)

LensOnly ==
    /\ mcall = NoCall
    /\ UNCHANGED <<mcall, source, squery, screen, pc, job>>

InitLens ==
    /\ mcall = NoCall
    /\ source = IdleSource
    /\ squery = IdleQuery
    /\ \E kappa_in \in SampleKappa, x \in -MaxPos .. MaxPos, y \in -MaxPos .. MaxPos :
          lens \in lensT(kappa_in, x, y)
    /\ lquery = IdleQuery
    /\ screen = IdleScreen
    /\ pc = "idle"
    /\ job = NoJob

\* lens.move(x_pos, y_pos).
LensMove ==
    /\ lquery = IdleQuery
    /\ \E x_pos \in -MaxPos .. MaxPos, y_pos \in -MaxPos .. MaxPos :
          lens' = lensT_move(lens, x_pos, y_pos)
    /\ UNCHANGED lquery
    /\ LensOnly

\* lens.weight = weight_int / 20.
LensSetWeight ==
    /\ lquery = IdleQuery
    /\ \E weight_int \in SampleWeights : lens' = [lens EXCEPT !.weight = weight_int]
    /\ UNCHANGED lquery
    /\ LensOnly

\* lens.raytrace_pixel(x1, x2, rel1_safe, rel2_safe, scale_fac, y1, y2) for a
\* pixel in and around the lens, its lens-relative coordinates relocated
\* into the lens as the renderer does.
QueryRaytrace ==
    /\ lquery = IdleQuery
    /\ \E x1 \in lens.origin[1] - 1 .. lens.end_points[1],
          x2 \in lens.origin[2] - 1 .. lens.end_points[2],
          scale_fac \in SampleScales :
          LET rel1_safe == relocate_int(x1 - lens.origin[1], lens.w)
              rel2_safe == relocate_int(x2 - lens.origin[2], lens.h)
          IN  lquery' = [fn |-> "raytrace", x1 |-> x1, x2 |-> x2,
                         rel1_safe |-> rel1_safe, rel2_safe |-> rel2_safe,
                         scale_fac |-> scale_fac,
                         result |-> raytrace_pixel(lens, x1, x2, rel1_safe,
                                                   rel2_safe, scale_fac)]
    /\ UNCHANGED lens
    /\ LensOnly

\* lens.contains(x, y) for a pixel in and around the lens.
QueryLensContains ==
    /\ lquery = IdleQuery
    /\ \E x \in lens.origin[1] - 1 .. lens.end_points[1],
          y \in lens.origin[2] - 1 .. lens.end_points[2] :
          lquery' = [fn |-> "contains", x |-> x, y |-> y,
                     result |-> lensT_contains(lens, x, y)]
    /\ UNCHANGED lens
    /\ LensOnly

\* The query returns to its caller.
LensQueryReturn ==
    /\ lquery # IdleQuery
    /\ lquery' = IdleQuery
    /\ UNCHANGED lens
    /\ LensOnly

NextLens ==
    \/ LensMove
    \/ LensSetWeight
    \/ QueryRaytrace
    \/ QueryLensContains
    \/ LensQueryReturn

SpecLens == InitLens /\ [][NextLens]_vars

AllZero(f) == \A rc \in DOMAIN f.at : f.at[rc] = 0

\* C6: a 4 x 4 all-zero convergence grid gives an all-zero potential, all-zero
\* deflection grids and an all-zero shear grid, and raytrace_pixel on any
\* pixel returns the pixel's own coordinates, for every weight and scale
\* factor.
C6_ZeroLens ==
    (lens # IdleLens /\ lens.kappa_in.rows = 4 /\ lens.kappa_in.cols = 4
     /\ AllZero(lens.kappa_in)) =>
        /\ AllZero(lens.kappa)
        /\ lens.psi.rows = 4 /\ lens.psi.cols = 4 /\ AllZero(lens.psi)
        /\ lens.alpha1.rows = 4 /\ lens.alpha1.cols = 4 /\ AllZero(lens.alpha1)
        /\ lens.alpha2.rows = 4 /\ lens.alpha2.cols = 4 /\ AllZero(lens.alpha2)
        /\ lens.shear.rows = 4 /\ lens.shear.cols = 4 /\ AllZero(lens.shear)
        /\ lquery.fn = "raytrace" =>
              /\ lquery.result.y1 = lquery.x1 * lquery.result.den
              /\ lquery.result.y2 = lquery.x2 * lquery.result.den

\* C6, witness: a pixel of the moved and reweighted all-zero 4 x 4 lens is
\* ray-traced to itself.
C6_Witness ==
    /\ lens # IdleLens
    /\ lens.kappa_in.rows = 4 /\ lens.kappa_in.cols = 4
    /\ AllZero(lens.kappa_in)
    /\ lens.weight = 100
    /\ lquery.fn = "raytrace"
    /\ lquery.scale_fac = FracDen
    /\ lquery.x1 # lquery.rel1_safe
    /\ lquery.result.y1 = lquery.x1 * lquery.result.den

---------------------------------------------------------------------------
(* renderer.cpp: Parallel_renderer; screen_io.cpp: screenT.  An image of the
   screen is a function from the cells <<row, col>> to the three channel
   bytes <<B, G, R>>. *)

White == <<255, 255, 255>>
Red == <<0, 0, 255>>

\* The product fi * fj of two fall-off weights.
WeightProduct(fi, fj) ==
    IF fi.zero \/ fj.zero THEN [zero |-> TRUE, n |-> 0, d |-> 1]
    ELSE [zero |-> FALSE, n |-> fi.n * fj.d + fj.n * fi.d, d |-> fi.d * fj.d]

\* The weight exp(n / d), n <= 0, as a fixed-point number: the largest
\* v / FracDen with v = 0 or log(2 v - 1) - log(2 FracDen) <= n / d, that is,
\* the weight rounded to the nearest multiple of 1 / FracDen.
WeightFixed(a) ==
    IF a.zero THEN 0
    ELSE CHOOSE v \in 0 .. FracDen :
            LET fits(u) == u = 0 \/ (LogMilli[2 * u - 1] - LogMilli[2 * FracDen]) * a.d
                                    <= 1000 * a.n
            IN  fits(v) /\ \A u \in v + 1 .. FracDen : ~fits(u)

\* The source plane coordinate y / den as a fixed-point number.
BetaFixed(y, den) == cvRound(y * FracDen, den)

\* A faulty variant: the convergence is added in every mode with overlays.
show_lens_mut(overlay_mode) == overlay_mode > 0

\* A faulty variant: the radial lines are asked for in mode 3 only.
show_radial_mut(overlay_mode) == overlay_mode = 3

\* The layers that the position overlay_mode of the Overlays trackbar
\* switches on: the critical curves and caustics, the convergence, any
\* overlay, the radial critical curves, the mark at the source centre.
show_cc(overlay_mode) == overlay_mode > 1 /\ overlay_mode <= 4
show_lens(overlay_mode) == overlay_mode = 1 \/ overlay_mode = 4
show_overlays(overlay_mode) == overlay_mode > 0
show_radial(overlay_mode) == overlay_mode = 3 \/ overlay_mode = 4
mark_source(overlay_mode) == overlay_mode >= 2

\* A faulty variant: the sum is stored without the comparison with 255.
FinalValue_mut(lensed_val, overlay_sum) == (lensed_val + overlay_sum) % 256

\* unsigned final_val = lensedRGB.at<Vec3b>(i,j)[c] + overlay_sum, and the
\* byte stored in finalRGB; the sum of three bytes is far from 2^32.
FinalValue(lensed_val, overlay_sum) ==
    LET final_val == lensed_val + overlay_sum
    IN  IF final_val > 255 THEN 255 ELSE final_val

\* The body of the loops of Parallel_renderer::operator() for the pixel
\* (j, i): the cells it leaves in lensedRGB and finalRGB, the index at which
\* it reads the lens's cc, caustic and kappa8u grids (overlay_reads: inside
\* the contains() branch at least one of them is read) and the index it
\* hands to raytrace_pixel for the deflection grids (alpha_reads).
RenderPixel(scr, l, s, recompute_lensed, i, j) ==
    LET h == l.h
        w == l.w
        mode == scr.overlay_mode
        rel_i == i - l.origin[2]
        rel_j == j - l.origin[1]
        fo_i == IF recompute_lensed
                THEN relocate_and_compute_exp_falloff(rel_i, h, h * HalfDen,
                                                      (h - 1) * FracDen)
                ELSE [safe_rel_x |-> 0, weight |-> WOne]
        overlaid == show_overlays(mode) /\ lensT_contains(l, j, i)
        cc_px_value == IF overlaid /\ show_cc(mode)
                       THEN GridAt(l.cc_map, rel_i, rel_j)
                       ELSE 0
        white == overlaid /\ show_cc(mode) /\ cc_px_value = 255 /\ ~recompute_lensed
        is_caustic_pixel == /\ overlaid
                            /\ ~white
                            /\ GridAt(l.caustic_map, rel_i, rel_j) > 0
                            /\ show_cc(mode)
        overlay_sum == (IF overlaid /\ show_cc(mode) /\ cc_px_value > 0
                        THEN cc_px_value ELSE 0)
                       + (IF overlaid /\ show_lens(mode)
                          THEN GridAt(l.kappa8u, rel_i, rel_j) ELSE 0)
        fo_j == relocate_and_compute_exp_falloff(rel_j, w, w * HalfDen,
                                                 (w - 1) * FracDen)
        beta == raytrace_pixel(l, j, i, fo_j.safe_rel_x, fo_i.safe_rel_x,
                               WeightFixed(WeightProduct(fo_i.weight, fo_j.weight)))
        lensed == IF recompute_lensed
                  THEN get_linear_interpolated_pixel(
                           s, BetaFixed(beta.y1, beta.den),
                           BetaFixed(beta.y2, beta.den)).val
                  ELSE scr.lensedRGB[<<i, j>>]
    IN  [lensed |-> lensed,
         final |-> IF white THEN White
                   ELSE IF is_caustic_pixel THEN Red
                   ELSE [c \in 1 .. 3 |-> FinalValue(lensed[c], overlay_sum)],
         white |-> white,
         is_caustic_pixel |-> is_caustic_pixel,
         overlay_reads |-> IF overlaid THEN {<<rel_i, rel_j>>} ELSE {},
         alpha_reads |-> IF recompute_lensed
                         THEN {<<fo_i.safe_rel_x, fo_j.safe_rel_x>>}
                         ELSE {}]

\* A faulty variant: the pass stores the final pixel in the lensed image too.
ParallelRender_mut(scr, l, s, redraw_overlay_only) ==
    LET px == [rc \in Cells(scr.max_h, scr.max_w) |->
                  RenderPixel(scr, l, s, ~redraw_overlay_only, rc[1], rc[2])]
    IN  [scr EXCEPT !.lensedRGB = [rc \in Cells(scr.max_h, scr.max_w) |-> px[rc].final],
                    !.finalRGB = [rc \in Cells(scr.max_h, scr.max_w) |-> px[rc].final]]

\* cv::parallel_for_(cv::Range(0, max_h), Parallel_renderer(this,
\* !redraw_overlay_only)): every pixel of the screen is rendered.
ParallelRender(scr, l, s, redraw_overlay_only) ==
    LET px == [rc \in Cells(scr.max_h, scr.max_w) |->
                  RenderPixel(scr, l, s, ~redraw_overlay_only, rc[1], rc[2])]
    IN  [scr EXCEPT !.lensedRGB = [rc \in Cells(scr.max_h, scr.max_w) |-> px[rc].lensed],
                    !.finalRGB = [rc \in Cells(scr.max_h, scr.max_w) |-> px[rc].final]]

MarkerRadius == 7
MarkerGray == 210

\* cv::circle(finalRGB, {pos1, pos2}, 7, cv::Scalar::all(210), -1): the filled
\* disc around the source centre, clipped to the screen.
MarkSourceCentre(scr, s) ==
    [scr EXCEPT !.finalRGB =
        [rc \in Cells(scr.max_h, scr.max_w) |->
            IF (rc[2] - s.pos[1]) * (rc[2] - s.pos[1])
               + (rc[1] - s.pos[2]) * (rc[1] - s.pos[2])
               <= MarkerRadius * MarkerRadius
            THEN <<MarkerGray, MarkerGray, MarkerGray>>
            ELSE scr.finalRGB[rc]]]

---------------------------------------------------------------------------
(* The program: main constructs the lens, the source and the screen; then the
   window delivers mouse and trackbar events, one at a time.  pc is the
   position of the handler in progress: "idle" between events, "render"
   before the parallel pass of render_lensed_image, "mark" after it. *)

\* Positions of the Source size trackbar, in percent.
SampleSizes == {0, 100, 200}

\* The files given on the command line: a convergence map and an image.
SampleFiles ==
    { [kappa_input |-> KappaIn("CV_8U", 3, 3,
                           [rc \in Cells(3, 3) |->
                               LET r == rc[1]
                                   c == rc[2]
                               IN  IF r = 1 /\ c = 1 THEN 255 ELSE 0]),
       imageRGB |-> SampleImage(3, 3)],
      [kappa_input |-> KappaIn("CV_64F", MaxLens, 3,
                           [rc \in Cells(MaxLens, 3) |->
                               LET r == rc[1]
                                   c == rc[2]
                               IN  r + c]),
       imageRGB |-> SampleImage(MaxImg + 1, MaxImg + 2)] }

\* The members of screenT as declared, the buffers zeroed by the constructor.
screenT_fields(w, h) ==
    [max_w |-> w, max_h |-> h,
     lensedRGB |-> [rc \in Cells(h, w) |-> Black],
     finalRGB |-> [rc \in Cells(h, w) |-> Black],
     mouse_lbutton_down |-> FALSE,
     weight_int |-> 100,
     source_size |-> 100,
     overlay_mode |-> 1,
     redraw_cc_on_next_action |-> TRUE,
     cc_radial |-> FALSE,
     redraw_overlay_only |-> FALSE]

\* void screenT::render_lensed_image(bool redraw_overlay_only), in one piece.
render_lensed_image(scr, l, s, redraw_overlay_only) ==
    LET rendered == ParallelRender(scr, l, s, redraw_overlay_only)
    IN  IF mark_source(scr.overlay_mode) THEN MarkSourceCentre(rendered, s)
        ELSE rendered

\* The state after main has constructed lens, source and screen: the screen
\* constructor ends with reapply_weight(0, this), which in overlay mode 1
\* sets the weight, defers the extraction and refreshes the screen.
Init ==
    /\ mcall = NoCall
    /\ squery = IdleQuery
    /\ lquery = IdleQuery
    /\ pc = "idle"
    /\ job = NoJob
    /\ \E files \in SampleFiles :
          LET max_w == Min(files.kappa_input.cols, files.imageRGB.cols)
              max_h == Min(files.kappa_input.rows, files.imageRGB.rows)
              scr == screenT_fields(max_w, max_h)
          IN  /\ source = sourceT(files.imageRGB, max_w \div 2, max_h \div 2)
              /\ \E l \in lensT(files.kappa_input, max_w \div 2, max_h \div 2) :
                    /\ lens = [l EXCEPT !.weight = scr.weight_int]
                    /\ screen = render_lensed_image(scr, lens, source, FALSE)

\* The pixels the mouse is at when it sends an event: the corners and the
\* centre of the screen, and a point off the window that a drag with the
\* button held reaches, far enough for the lens to leave the screen.
SampleTargets(scr) ==
    {<<0, 0>>, <<scr.max_w \div 2, scr.max_h \div 2>>,
     <<scr.max_w - 1, 0>>, <<scr.max_w - 1, scr.max_h - 1>>,
     <<-scr.max_w, -scr.max_h>>}

Idle ==
    /\ pc = "idle"
    /\ UNCHANGED <<mcall, squery, lquery, job>>

\* A faulty variant: every refresh redraws the overlays only.
Refresh_mut(scr, redraw_overlay_only) ==
    /\ screen' = [scr EXCEPT !.redraw_overlay_only = TRUE]
    /\ pc' = "render"

\* scr->refresh(redraw_overlay_only) is entered.
Refresh(scr, redraw_overlay_only) ==
    /\ screen' = [scr EXCEPT !.redraw_overlay_only = redraw_overlay_only]
    /\ pc' = "render"

\* handle_mouse_input, sig == cv::EVENT_MOUSEMOVE.
MouseMove ==
    /\ Idle
    /\ \E target \in SampleTargets(screen) :
          IF screen.mouse_lbutton_down
          THEN /\ lens' = lensT_move(lens, target[1], target[2])
               /\ Refresh(screen, FALSE)
          ELSE UNCHANGED <<lens, screen, pc>>
    /\ UNCHANGED source

\* handle_mouse_input, sig == cv::EVENT_LBUTTONUP.
LButtonUp ==
    /\ Idle
    /\ screen' = [screen EXCEPT !.mouse_lbutton_down = FALSE]
    /\ UNCHANGED <<lens, source, pc>>

\* handle_mouse_input, sig == cv::EVENT_LBUTTONDOWN.
LButtonDown ==
    /\ Idle
    /\ \E target \in SampleTargets(screen) :
          /\ lens' = lensT_move(lens, target[1], target[2])
          /\ Refresh([screen EXCEPT !.mouse_lbutton_down = TRUE], FALSE)
    /\ UNCHANGED source

\* The Kappa weight trackbar is moved to weight_int: reapply_weight.
ReapplyWeight ==
    /\ Idle
    /\ \E weight_int \in SampleWeights \ {screen.weight_int} :
          LET scr == [screen EXCEPT !.weight_int = weight_int]
              weighted == [lens EXCEPT !.weight = weight_int]
              radial == show_radial(scr.overlay_mode)
          IN  IF show_cc(scr.overlay_mode)
              THEN \E drawn \in ContourMasks(weighted, radial) :
                      /\ lens' = update_cc_and_caustics(weighted, radial, drawn)
                      /\ Refresh([scr EXCEPT !.redraw_cc_on_next_action = FALSE], FALSE)
              ELSE /\ lens' = weighted
                   /\ Refresh([scr EXCEPT !.redraw_cc_on_next_action = TRUE], FALSE)
    /\ UNCHANGED source

\* The Overlays trackbar is moved to overlay_mode: update_overlays.
UpdateOverlays ==
    /\ Idle
    /\ \E overlay_mode \in (0 .. 4) \ {screen.overlay_mode} :
          LET scr == [screen EXCEPT !.overlay_mode = overlay_mode]
              radial == show_radial(overlay_mode)
              flagged == IF show_cc(overlay_mode) /\ scr.cc_radial # radial
                         THEN [scr EXCEPT !.redraw_cc_on_next_action = TRUE,
                                          !.cc_radial = radial]
                         ELSE scr
          IN  IF show_cc(overlay_mode) /\ flagged.redraw_cc_on_next_action
              THEN \E drawn \in ContourMasks(lens, radial) :
                      /\ lens' = update_cc_and_caustics(lens, radial, drawn)
                      /\ Refresh([flagged EXCEPT !.redraw_cc_on_next_action = FALSE], TRUE)
              ELSE /\ lens' = lens
                   /\ Refresh(flagged, TRUE)
    /\ UNCHANGED source

\* The Source size trackbar is moved to source_size: resize_source.
ResizeSource ==
    /\ Idle
    /\ \E source_size \in SampleSizes \ {screen.source_size} :
          /\ source' = resize_area(source, (source_size * HalfDen) \div 50)
          /\ Refresh([screen EXCEPT !.source_size = source_size], FALSE)
    /\ UNCHANGED lens

\* render_lensed_image: the parallel pass over the rows of the screen.
RenderPass ==
    /\ pc = "render"
    /\ screen' = ParallelRender(screen, lens, source, screen.redraw_overlay_only)
    /\ pc' = "mark"
    /\ UNCHANGED <<mcall, squery, lquery, lens, source, job>>

\* render_lensed_image: the source centre is marked in the overlay modes 2
\* to 4; refresh then shows the final image and the handler returns.
MarkSource ==
    /\ pc = "mark"
    /\ screen' = IF mark_source(screen.overlay_mode)
                 THEN MarkSourceCentre(screen, source)
                 ELSE screen
    /\ pc' = "idle"
    /\ UNCHANGED <<mcall, squery, lquery, lens, source, job>>

Next ==
    \/ MouseMove
    \/ LButtonUp
    \/ LButtonDown
    \/ ReapplyWeight
    \/ UpdateOverlays
    \/ ResizeSource
    \/ RenderPass
    \/ MarkSource

Spec == Init /\ [][Next]_vars

\* The parallel pass of the last render is over and the final image is as
\* the renderer wrote it (the marker is not drawn yet, or is not drawn in
\* this mode).
PassDone == pc = "mark" \/ (pc = "idle" /\ screen.overlay_mode < 2)

ShowCC == screen.overlay_mode > 1 /\ screen.overlay_mode <= 4
ShowLens == screen.overlay_mode = 1 \/ screen.overlay_mode = 4

\* The pixel (j, i) = (rc[2], rc[1]) of the screen is one that has lens data.
InLens(rc) == lensT_contains(lens, rc[2], rc[1])

\* The critical curve intensity, the caustic mark and the convergence byte
\* of the lens at the pixel rc of the screen.
CCAt(rc) == GridAt(lens.cc_map, rc[1] - lens.origin[2], rc[2] - lens.origin[1])
CausticAt(rc) == GridAt(lens.caustic_map, rc[1] - lens.origin[2], rc[2] - lens.origin[1])
Kappa8uAt(rc) == GridAt(lens.kappa8u, rc[1] - lens.origin[2], rc[2] - lens.origin[1])

\* The pixel was set by the white short-circuit, by the caustic rule.
SetWhite(rc) ==
    /\ pc = "mark" /\ screen.redraw_overlay_only
    /\ ShowCC /\ InLens(rc) /\ CCAt(rc) = 255
SetRed(rc) == ShowCC /\ InLens(rc) /\ CausticAt(rc) > 0 /\ ~SetWhite(rc)

\* The sum A of the active overlay intensities at the pixel.
OverlayIntensity(rc) ==
    IF InLens(rc)
    THEN (IF ShowCC THEN CCAt(rc) ELSE 0) + (IF ShowLens THEN Kappa8uAt(rc) ELSE 0)
    ELSE 0

\* C9: every pixel that is set neither by the white short-circuit nor by
\* the caustic rule gets final[c] = min(255, lensed[c] + A) in each channel
\* c, A being the sum of the active overlay intensities at the pixel (0
\* where the lens has no data); the stored value is in [0, 255].
C9_FinalIsClampedSum ==
    PassDone =>
        \A rc \in Cells(screen.max_h, screen.max_w) :
            (~SetWhite(rc) /\ ~SetRed(rc)) =>
                \A c \in 1 .. 3 :
                    /\ screen.finalRGB[rc][c]
                          = Min(255, screen.lensedRGB[rc][c] + OverlayIntensity(rc))
                    /\ screen.finalRGB[rc][c] \in 0 .. 255

\* C9, witness: after a full redraw a pixel has a channel whose sum with the
\* overlays exceeds 255 and is stored as 255, and a channel whose sum does
\* not and is stored as it is.
C9_Witness ==
    /\ pc = "mark"
    /\ ~screen.redraw_overlay_only
    /\ \E rc \in Cells(screen.max_h, screen.max_w) :
          /\ ~SetWhite(rc) /\ ~SetRed(rc)
          /\ OverlayIntensity(rc) > 0
          /\ \E c \in 1 .. 3 :
                /\ screen.lensedRGB[rc][c] < 255
                /\ screen.lensedRGB[rc][c] + OverlayIntensity(rc) > 255
                /\ screen.finalRGB[rc][c] = 255
          /\ \E c \in 1 .. 3 :
                /\ screen.lensedRGB[rc][c] > 0
                /\ screen.lensedRGB[rc][c] + OverlayIntensity(rc) < 255
                /\ screen.finalRGB[rc][c]
                      = screen.lensedRGB[rc][c] + OverlayIntensity(rc)

\* C10, as stated: with the critical curve layer active, after the pass of
\* an overlay-only render and of a full redraw alike, every pixel with lens
\* data whose critical curve intensity is 255 is white, also when it is a
\* caustic pixel, and a caustic pixel that is not such a pixel is red.
C10_AsStated ==
    (pc = "mark" /\ ShowCC) =>
        \A rc \in Cells(screen.max_h, screen.max_w) :
            InLens(rc) =>
                /\ CCAt(rc) = 255 => screen.finalRGB[rc] = White
                /\ (CausticAt(rc) > 0 /\ CCAt(rc) # 255) => screen.finalRGB[rc] = Red

---------------------------------------------------------------------------
(* cv::parallel_for_(range, body): the rows of the range are split into
   stripes and the body is called once for every stripe, the calls running
   concurrently.  job holds the stripes, the pixel every call is at, and
   the cells of the shared buffers every call has read and written. *)

\* The largest number of stripes.
MaxWorkers == 2

\* A faulty variant: every stripe but the last runs one row into the next.
RECURSIVE StripesOf_mut(_)
StripesOf_mut(B) ==
    IF Cardinality(B) < 2 THEN <<>>
    ELSE LET lo == CHOOSE b \in B : \A c \in B : b <= c
             rest == B \ {lo}
             up == CHOOSE b \in rest : \A c \in rest : b <= c
         IN  <<<<lo, IF Cardinality(rest) > 1 THEN up + 1 ELSE up>>>>
             \o StripesOf_mut(rest)

\* The stripes between the consecutive row boundaries of the set B.
RECURSIVE StripesOf(_)
StripesOf(B) ==
    IF Cardinality(B) < 2 THEN <<>>
    ELSE LET lo == CHOOSE b \in B : \A c \in B : b <= c
             rest == B \ {lo}
             up == CHOOSE b \in rest : \A c \in rest : b <= c
         IN  <<<<lo, up>>>> \o StripesOf(rest)

\* The ways to split cv::Range(0, n) into stripes.
Stripes(n) ==
    {StripesOf({0, n} \cup cuts) :
        cuts \in {c \in SUBSET (1 .. n - 1) : Cardinality(c) < MaxWorkers}}

\* The job as parallel_for_ starts it, before being the buffers as they are.
Fork(body, ranges, before) ==
    [body |-> body,
     ranges |-> ranges,
     next |-> [k \in DOMAIN ranges |-> <<ranges[k][1], 0>>],
     read |-> [k \in DOMAIN ranges |-> {}],
     wrote |-> [k \in DOMAIN ranges |-> {}],
     before |-> before]

\* for (i = range.start; i < range.end; ++i) for (j = 0; j < width; ++j):
\* the call k has left its loops; the pixel after the pixel pos.
Finished(j, k) == j.next[k][1] >= j.ranges[k][2]
Advance(pos, width) ==
    IF pos[2] + 1 < width THEN <<pos[1], pos[2] + 1>> ELSE <<pos[1] + 1, 0>>

\* The body of the loops has run for the pixel of the call k, reading the
\* cells reads and writing the cells writes.
Step(j, k, width, reads, writes) ==
    [j EXCEPT !.next[k] = Advance(@, width),
              !.read[k] = @ \cup reads,
              !.wrote[k] = @ \cup writes]

\* Contours of a single pixel.
DotMasks(h, w) ==
    {ByteGrid(h, w, [rc \in Cells(h, w) |-> IF rc = p THEN 255 ELSE 0]) :
        p \in Cells(h, w)}

\* The maps that the extraction can leave in cc_map, single pixels among them.
WorkerMasks(l, include_radial_lines) ==
    IF Cardinality(ContourMasks(l, include_radial_lines)) = 1
    THEN ContourMasks(l, include_radial_lines)
    ELSE ContourMasks(l, include_radial_lines) \cup DotMasks(l.h, l.w)

\* The files given on the command line: any of the convergence maps with
\* an image.
WorkerFiles ==
    SampleFiles
    \cup {[kappa_input |-> kappa_input, imageRGB |-> SampleImage(3, 3)] :
             kappa_input \in SampleKappa}

\* main has constructed lens, source and screen; the weight is the one of a
\* position of the Kappa weight trackbar.
InitWorkers ==
    /\ mcall = NoCall
    /\ squery = IdleQuery
    /\ lquery = IdleQuery
    /\ pc = "idle"
    /\ job = NoJob
    /\ \E files \in WorkerFiles, weight_int \in SampleWeights :
          LET max_w == Min(files.kappa_input.cols, files.imageRGB.cols)
              max_h == Min(files.kappa_input.rows, files.imageRGB.rows)
              scr == [screenT_fields(max_w, max_h) EXCEPT !.weight_int = weight_int]
          IN  /\ source = sourceT(files.imageRGB, max_w \div 2, max_h \div 2)
              /\ \E l \in lensT(files.kappa_input, max_w \div 2, max_h \div 2) :
                    /\ lens = [l EXCEPT !.weight = scr.weight_int]
                    /\ screen = render_lensed_image(scr, lens, source, FALSE)

\* render_lensed_image starts the parallel pass: of a full redraw after the
\* lens was moved, or of an overlay-only render after the Overlays trackbar
\* was moved.
ForkRender ==
    /\ pc = "idle"
    /\ job = NoJob
    /\ \E ranges \in Stripes(screen.max_h) :
          \/ \E target \in SampleTargets(screen) :
                /\ lens' = lensT_move(lens, target[1], target[2])
                /\ screen' = [screen EXCEPT !.redraw_overlay_only = FALSE]
                /\ job' = Fork("render", ranges, screen')
          \/ \E overlay_mode \in 0 .. 4 :
                /\ lens' = lens
                /\ screen' = [screen EXCEPT !.overlay_mode = overlay_mode,
                                            !.redraw_overlay_only = TRUE]
                /\ job' = Fork("render", ranges, screen')
    /\ pc' = "render"
    /\ UNCHANGED <<mcall, squery, lquery, source>>

\* A call of Parallel_renderer::operator() renders its next pixel.
RenderStep ==
    /\ job.body = "render"
    /\ \E k \in DOMAIN job.ranges :
          /\ ~Finished(job, k)
          /\ LET i == job.next[k][1]
                 j == job.next[k][2]
                 recompute_lensed == ~screen.redraw_overlay_only
                 px == RenderPixel(screen, lens, source, recompute_lensed, i, j)
             IN  /\ screen' = [screen EXCEPT !.lensedRGB[<<i, j>>] = px.lensed,
                                             !.finalRGB[<<i, j>>] = px.final]
                 /\ job' = Step(job, k, screen.max_w,
                                IF px.white \/ px.is_caustic_pixel THEN {}
                                ELSE {<<"lensedRGB", i, j>>},
                                {<<"finalRGB", i, j>>}
                                \cup IF recompute_lensed THEN {<<"lensedRGB", i, j>>}
                                     ELSE {})
    /\ UNCHANGED <<mcall, squery, lquery, lens, source, pc>>

\* Every call has returned, and so does parallel_for_.
JoinRender ==
    /\ job.body = "render"
    /\ \A k \in DOMAIN job.ranges : Finished(job, k)
    /\ job' = [job EXCEPT !.body = "rendered"]
    /\ pc' = "mark"
    /\ UNCHANGED <<mcall, squery, lquery, lens, source, screen>>

\* update_cc_and_caustics has drawn the contours, zeroes caustic_map and
\* starts the parallel pass of invert_cc_map.
ForkInvert ==
    /\ pc = "idle"
    /\ job = NoJob
    /\ \E include_radial_lines \in BOOLEAN :
          \E drawn \in WorkerMasks(lens, include_radial_lines) :
              lens' = [lens EXCEPT !.cc_map = drawn,
                                   !.caustic_map =
                                       ByteGrid(lens.h, lens.w,
                                           [rc \in Cells(lens.h, lens.w) |-> 0]),
                                   !.cc_weight = lens.weight,
                                   !.cc_radial = include_radial_lines]
    /\ \E ranges \in Stripes(lens.h) : job' = Fork("invert", ranges, lens.caustic_map)
    /\ pc' = "invert"
    /\ UNCHANGED <<mcall, squery, lquery, source, screen>>

\* A faulty variant: the call reads the cell and inverts it.
InvertStep_mut ==
    /\ job.body = "invert"
    /\ \E k \in DOMAIN job.ranges :
          /\ ~Finished(job, k)
          /\ LET i == job.next[k][1]
                 j == job.next[k][2]
                 cells == CausticWrites(lens, lens.cc_map, i, j)
             IN  /\ lens' = [lens EXCEPT !.caustic_map.at =
                                [rc \in DOMAIN @ |->
                                    IF rc \in cells THEN 255 - @[rc]
                                    ELSE @[rc]]]
                 /\ job' = Step(job, k, lens.w,
                                {<<"cc_map", i, j>>},
                                {<<"caustic_map", rc[1], rc[2]>> : rc \in cells})
    /\ UNCHANGED <<mcall, squery, lquery, source, screen, pc>>

\* A call of invert_cc_map::operator() inverts its next pixel.
InvertStep ==
    /\ job.body = "invert"
    /\ \E k \in DOMAIN job.ranges :
          /\ ~Finished(job, k)
          /\ LET i == job.next[k][1]
                 j == job.next[k][2]
                 cells == CausticWrites(lens, lens.cc_map, i, j)
             IN  /\ lens' = [lens EXCEPT !.caustic_map.at =
                                [rc \in DOMAIN @ |-> IF rc \in cells THEN 255 ELSE @[rc]]]
                 /\ job' = Step(job, k, lens.w,
                                {<<"cc_map", i, j>>},
                                {<<"caustic_map", rc[1], rc[2]>> : rc \in cells})
    /\ UNCHANGED <<mcall, squery, lquery, source, screen, pc>>

\* Every call has returned, and so does parallel_for_.
JoinInvert ==
    /\ job.body = "invert"
    /\ \A k \in DOMAIN job.ranges : Finished(job, k)
    /\ job' = [job EXCEPT !.body = "inverted"]
    /\ pc' = "idle"
    /\ UNCHANGED <<mcall, squery, lquery, lens, source, screen>>

NextWorkers ==
    \/ ForkRender
    \/ RenderStep
    \/ JoinRender
    \/ ForkInvert
    \/ InvertStep
    \/ JoinInvert

SpecWorkers == InitWorkers /\ [][NextWorkers]_vars

---------------------------------------------------------------------------
(* The layers of the final image *)

\* The pixel is within the disc that marks the source centre.
InMarker(rc) ==
    (rc[2] - source.pos[1]) * (rc[2] - source.pos[1])
    + (rc[1] - source.pos[2]) * (rc[1] - source.pos[2]) <= 49

\* The last render was overlay-only and set the pixel white; the pixel was
\* set red as a caustic pixel.
WhiteRule(rc) == screen.redraw_overlay_only /\ InLens(rc) /\ CCAt(rc) = 255
RedRule(rc) == InLens(rc) /\ CausticAt(rc) > 0 /\ ~WhiteRule(rc)

\* The lensed pixel with the intensity a added in every channel.
Added(rc, a) == [c \in 1 .. 3 |-> Min(255, screen.lensedRGB[rc][c] + a)]

\* The pixel of the final image that the enumeration of the overlay modes
\* prescribes, before the source centre is marked.
LayeredPixel(rc) ==
    LET m == screen.overlay_mode
        cc == IF InLens(rc) THEN CCAt(rc) ELSE 0
        kappa == IF InLens(rc) THEN Kappa8uAt(rc) ELSE 0
    IN  CASE m = 0 -> screen.lensedRGB[rc]
          [] m = 1 -> Added(rc, kappa)
          [] m \in {2, 3} -> IF WhiteRule(rc) THEN White
                             ELSE IF RedRule(rc) THEN Red
                             ELSE Added(rc, cc)
          [] m = 4 -> IF WhiteRule(rc) THEN White
                      ELSE IF RedRule(rc) THEN Red
                      ELSE Added(rc, cc + kappa)

\* C11: the overlay mode selects the layers as enumerated.  After the pass
\* of a render the final image is the lensed image in mode 0, the lensed
\* image plus the convergence in mode 1 (the critical curve and caustic maps
\* have no effect), the lensed image with the critical curves and caustics
\* in the modes 2 and 3 (the convergence has no effect), and with all of
\* them in mode 4; when the handler has returned, the source centre is
\* marked in the modes 2 to 4 and in no other mode.
C11_LayersByMode ==
    (pc \in {"mark", "idle"}) =>
        \A rc \in Cells(screen.max_h, screen.max_w) :
            screen.finalRGB[rc]
                = IF pc = "idle" /\ screen.overlay_mode \in 2 .. 4 /\ InMarker(rc)
                  THEN <<210, 210, 210>>
                  ELSE LayeredPixel(rc)

\* C11, witness: after the pass of a render in mode 2 or 3 a pixel with a
\* positive convergence byte and no critical curve or caustic on it shows
\* the lensed pixel, which is not saturated.
C11_Witness ==
    /\ pc = "mark"
    /\ screen.overlay_mode \in {2, 3}
    /\ \E rc \in Cells(screen.max_h, screen.max_w) :
          /\ InLens(rc)
          /\ Kappa8uAt(rc) > 0
          /\ CCAt(rc) = 0 /\ CausticAt(rc) = 0
          /\ screen.lensedRGB[rc][1] < 255
          /\ screen.finalRGB[rc] = screen.lensedRGB[rc]

---------------------------------------------------------------------------
(* The lensed image *)

\* The source sample that ray tracing finds for the pixel rc of the screen:
\* the deflection at the pixel relocated into the lens, scaled by the
\* fall-off weights of both directions and by the lens weight, and the
\* source interpolated at the deflected position.
TracedSample(l, s, rc) ==
    LET fi == relocate_and_compute_exp_falloff(rc[1] - l.origin[2], l.h,
                                               l.h * HalfDen, (l.h - 1) * FracDen)
        fj == relocate_and_compute_exp_falloff(rc[2] - l.origin[1], l.w,
                                               l.w * HalfDen, (l.w - 1) * FracDen)
        beta == raytrace_pixel(l, rc[2], rc[1], fj.safe_rel_x, fi.safe_rel_x,
                               WeightFixed(WeightProduct(fi.weight, fj.weight)))
    IN  get_linear_interpolated_pixel(s, BetaFixed(beta.y1, beta.den),
                                      BetaFixed(beta.y2, beta.den)).val

\* C12: a render changes neither the lens nor the source; an overlay-only
\* render leaves every cell of the lensed image as it was, and the pass of a
\* full redraw stores the ray-traced source sample in every cell of the
\* lensed image, the cells of the pixels drawn red as caustics included.
C12_OverlayOnlyReusesLensed ==
    [][(pc \in {"render", "mark"}) =>
          /\ lens' = lens
          /\ source' = source
          /\ (screen.redraw_overlay_only \/ pc = "mark")
                => screen'.lensedRGB = screen.lensedRGB
          /\ (pc = "render" /\ ~screen.redraw_overlay_only)
                => \A rc \in Cells(screen.max_h, screen.max_w) :
                      screen'.lensedRGB[rc] = TracedSample(lens, source, rc)]_vars

\* C12, witness: the pass of a full redraw has drawn a pixel red, and the
\* cell of this pixel in the lensed image holds its ray-traced sample, which
\* is not the black that the buffer was created with.
C12_Witness ==
    /\ pc = "mark"
    /\ ~screen.redraw_overlay_only
    /\ \E rc \in Cells(screen.max_h, screen.max_w) :
          /\ ShowCC /\ RedRule(rc)
          /\ screen.finalRGB[rc] = Red
          /\ screen.lensedRGB[rc] = TracedSample(lens, source, rc)
          /\ screen.lensedRGB[rc] # Black

\* C13: every handler that changes the lens, the source or a trackbar value
\* goes on to one render, which is overlay-only exactly if the handler is
\* that of the Overlays trackbar; hence, after the construction of the
\* screen and whenever a handler has returned, every cell of the lensed
\* image is the ray-traced source sample for the current lens origin and
\* weight and the current source.
C13_LensedIsCurrent ==
    /\ [](pc = "idle" =>
            \A rc \in Cells(screen.max_h, screen.max_w) :
                screen.lensedRGB[rc] = TracedSample(lens, source, rc))
    /\ [][(/\ pc = "idle"
           /\ \/ lens' # lens
              \/ source' # source
              \/ screen'.weight_int # screen.weight_int
              \/ screen'.source_size # screen.source_size
              \/ screen'.overlay_mode # screen.overlay_mode)
          => /\ pc' = "render"
             /\ screen'.redraw_overlay_only
                   = (screen'.overlay_mode # screen.overlay_mode)]_vars

\* C13, witness: the lens has been moved, the weight, the source size and
\* the overlay mode have been changed, the last render was overlay-only and
\* the handler has returned with a lensed image that is not all black.
C13_Witness ==
    /\ pc = "idle"
    /\ lens.origin[1] # 0
    /\ screen.weight_int # 100
    /\ screen.source_size # 100
    /\ screen.overlay_mode # 1
    /\ screen.redraw_overlay_only
    /\ \E rc \in Cells(screen.max_h, screen.max_w) : screen.lensedRGB[rc] # Black
    /\ \A rc \in Cells(screen.max_h, screen.max_w) :
          screen.lensedRGB[rc] = TracedSample(lens, source, rc)

---------------------------------------------------------------------------
(* The weight and the extraction of the critical curves *)

\* The critical curves and caustics of the lens are those extracted with
\* its current weight, with the radial lines as the overlay mode asks.
CurvesCurrent(l, overlay_mode) ==
    /\ l.cc_weight = l.weight
    /\ l.cc_radial = (overlay_mode \in {3, 4})
    /\ l.caustic_map = invert_cc_map(l, l.cc_map)

---------------------------------------------------------------------------
(* The grids of the lens *)

\* The convergence, its display map, the potential, the deflection and the
\* shear of a lens.
FieldGrids(l) == <<l.kappa, l.kappa8u, l.psi, l.alpha1, l.alpha2, l.shear>>

\* C15: the convergence, the potential, the deflection and the shear are
\* those of the construction: no step of any handler (lens move, weight
\* change, overlay mode change, source resize, extraction of the critical
\* curves, render) changes a cell of them; and the shear is present from the
\* construction on, so that the extraction never finds shear.cols == 0 and
\* never computes the derivatives again.
C15_GridsComputedOnce ==
    /\ [][FieldGrids(lens') = FieldGrids(lens)]_vars
    /\ [](lens.shear.cols = lens.w /\ lens.shear.rows = lens.h /\ lens.w > 0)

\* C15, witness: the lens was moved, the weight changed and the curves
\* extracted again with contours drawn, and the potential, the deflection
\* and the shear are still the ones derived from the convergence, which is
\* the one derived from the input.
C15_Witness ==
    /\ pc = "idle"
    /\ lens.origin[1] # 0
    /\ screen.weight_int # 100
    /\ lens.cc_weight = lens.weight
    /\ \E rc \in DOMAIN lens.cc_map.at : lens.cc_map.at[rc] > 0
    /\ \E rc \in DOMAIN lens.shear.at : lens.shear.at[rc] > 0
    /\ FieldGrids(lens)
          = FieldGrids(lensT_fields(lens.kappa_in, lens.origin[1], lens.origin[2]))

---------------------------------------------------------------------------
(* The parallel passes *)

\* The calls of the body that the job consists of; the rows of a call.
Workers == DOMAIN job.ranges
RowsOf(k) == job.ranges[k][1] .. job.ranges[k][2] - 1

\* C16: in a render pass whose rows are split into stripes, every call of
\* the renderer writes cells of the lensed and of the final image only in
\* the rows of its stripe, no cell is written by two calls, no call reads a
\* cell of these buffers that another call writes, and when all calls have
\* returned the buffers are those of the pass run as a whole, whatever the
\* stripes and the order of the steps were.
C16_RenderRowsDisjoint ==
    (job.body \in {"render", "rendered"}) =>
        /\ \A k \in Workers :
              \A cell \in job.wrote[k] \cup job.read[k] :
                  /\ cell[1] \in {"lensedRGB", "finalRGB"}
                  /\ cell[2] \in RowsOf(k)
        /\ \A k1, k2 \in Workers :
              k1 # k2 => /\ job.wrote[k1] \cap job.wrote[k2] = {}
                         /\ job.read[k1] \cap job.wrote[k2] = {}
        /\ job.body = "rendered" =>
              LET whole == ParallelRender(job.before, lens, source,
                                          screen.redraw_overlay_only)
              IN  /\ screen.lensedRGB = whole.lensedRGB
                  /\ screen.finalRGB = whole.finalRGB

\* C16, witness: a full redraw in two stripes has returned, each call has
\* written both buffers and read the lensed image, and the lensed image has
\* changed.
C16_Witness ==
    /\ job.body = "rendered"
    /\ ~screen.redraw_overlay_only
    /\ Cardinality(Workers) = 2
    /\ \A k \in Workers :
          /\ \E cell \in job.wrote[k] : cell[1] = "lensedRGB"
          /\ \E cell \in job.wrote[k] : cell[1] = "finalRGB"
          /\ \E cell \in job.read[k] : cell[1] = "lensedRGB"
    /\ \E rc \in Cells(screen.max_h, screen.max_w) :
          screen.lensedRGB[rc] # job.before.lensedRGB[rc]

\* The pixels <<i, j>> that the call k has gone through.
Processed(k, width) ==
    {rc \in RowsOf(k) \X (0 .. width - 1) :
        \/ rc[1] < job.next[k][1]
        \/ rc[1] = job.next[k][1] /\ rc[2] < job.next[k][2]}

\* The source plane position <<b2, b1>> of the pixel <<i, j>> of the lens:
\* the ray traced with the scale factor 1 and rounded as the inverter does.
SourcePlaneCell(rc) ==
    LET beta == raytrace_pixel(lens, rc[2], rc[1], rc[2], rc[1], FracDen)
    IN  <<RoundedCoord(beta.y2, beta.den), RoundedCoord(beta.y1, beta.den)>>

InMap(cell) == cell \in Cells(lens.h, lens.w)

\* The primary cells of the call k: the source plane cells, within the map,
\* of the contour pixels it has gone through.
Primaries(k) ==
    {SourcePlaneCell(rc) :
        rc \in {q \in Processed(k, lens.w) :
                   lens.cc_map.at[q] > 0 /\ InMap(SourcePlaneCell(q))}}

\* The primary cell with the cell one row above and the cell one column to
\* the left of it, each clamped into the map.
Footprint(cell) ==
    {cell,
     <<Max(0, cell[1] - 1), cell[2]>>,
     <<cell[1], Max(0, cell[2] - 1)>>}

CausticCellsOf(k) == {<<cell[2], cell[3]>> : cell \in job.wrote[k]}

\* C17, as stated: apart from the cells of the dilation, the cells of
\* different calls are disjoint: no primary cell of a call is a primary
\* cell of another call.
C17_AsStated ==
    (job.body \in {"invert", "inverted"}) =>
        \A k1, k2 \in Workers :
            k1 # k2 => Primaries(k1) \cap Primaries(k2) = {}

\* C17: the cells that a call of the inverter writes are the footprints of
\* its own primary cells, so every cell it writes is a primary cell of its
\* own or the neighbour above or to the left of one; the primary cell of a
\* contour pixel of row i is the cell that the ray of the pixel hits, in any
\* row of the map, and the cells of different calls need not be disjoint.
C17_FootprintOfOwnCells ==
    (job.body \in {"invert", "inverted"}) =>
        \A k \in Workers :
            /\ \A cell \in job.wrote[k] : cell[1] = "caustic_map"
            /\ CausticCellsOf(k) = UNION {Footprint(p) : p \in Primaries(k)}
            /\ \A cell \in CausticCellsOf(k) :
                  \E p \in Primaries(k) :
                      Abs(cell[1] - p[1]) + Abs(cell[2] - p[2]) <= 1

\* C17, witness: two calls have the same primary cell, which is in the rows
\* of neither, or of one only, and each has written it.
C17_Witness ==
    /\ job.body = "inverted"
    /\ \E k1, k2 \in Workers :
          /\ k1 # k2
          /\ \E p \in Primaries(k1) \cap Primaries(k2) :
                /\ p[1] \notin RowsOf(k1)
                /\ p \in CausticCellsOf(k1) \cap CausticCellsOf(k2)
                /\ lens.caustic_map.at[p] = 255

\* C18: writes of different calls of the inverter to the same cell of the
\* caustic map do not affect the result.  The map is zero when the pass
\* starts and every write stores 255, so that during the pass a cell is 255
\* if a call has written it and 0 if none has; the calls read the critical
\* curve map and never the caustic map; and when all calls have returned the
\* caustic map is the one of the inversion run as a whole, whatever the
\* stripes and the order of the steps were.
C18_InversionDeterministic ==
    (job.body \in {"invert", "inverted"}) =>
        /\ \A rc \in Cells(lens.h, lens.w) :
              lens.caustic_map.at[rc]
                  = IF \E k \in Workers : rc \in CausticCellsOf(k) THEN 255 ELSE 0
        /\ \A k \in Workers : \A cell \in job.read[k] : cell[1] = "cc_map"
        /\ job.body = "inverted" =>
              lens.caustic_map = invert_cc_map(lens, lens.cc_map)

\* C18, witness: the inversion in two stripes has returned and a cell of the
\* caustic map was written by both calls.
C18_Witness ==
    /\ job.body = "inverted"
    /\ \E k1, k2 \in Workers :
          /\ k1 # k2
          /\ \E rc \in CausticCellsOf(k1) \cap CausticCellsOf(k2) :
                lens.caustic_map.at[rc] = 255
    /\ \E rc \in Cells(lens.h, lens.w) : lens.caustic_map.at[rc] = 0
    /\ lens.caustic_map = invert_cc_map(lens, lens.cc_map)

\* The integer nearest to y / den.
NearestInteger(y, den) == Floor(2 * y + den, 2 * den)

\* The source plane position of the pixel rc of the lens, each coordinate
\* rounded to the nearest integer.
NearestSourcePlaneCell(rc) ==
    LET beta == raytrace_pixel(lens, rc[2], rc[1], rc[2], rc[1], FracDen)
    IN  <<NearestInteger(beta.y2, beta.den), NearestInteger(beta.y1, beta.den)>>

\* C19, as stated: a contour pixel whose ray-traced position, rounded to the
\* nearest integer, is outside the caustic map marks no cell, and no write
\* of the inversion is to a cell outside the map.
C19_AsStated ==
    (job.body \in {"invert", "inverted"}) =>
        /\ \A rc \in Cells(lens.h, lens.w) :
              (lens.cc_map.at[rc] > 0 /\ ~InMap(NearestSourcePlaneCell(rc)))
                  => CausticWrites(lens, lens.cc_map, rc[1], rc[2]) = {}
        /\ \A k \in Workers : \A cell \in CausticCellsOf(k) : InMap(cell)

\* The contour pixels of the critical curve map; the marked cells of the
\* caustic map.
ContourPixels == {rc \in Cells(lens.h, lens.w) : lens.cc_map.at[rc] > 0}
MarkedCells == {rc \in Cells(lens.h, lens.w) : lens.caustic_map.at[rc] > 0}

\* C20, as stated: after the inversion of a critical curve map with exactly
\* one contour pixel the caustic map has a marked cell, and its marked cells
\* are the rounded source plane position of the pixel, the cell one row
\* above and the cell one column to the left of it.
C20_AsStated ==
    (job.body = "inverted" /\ Cardinality(ContourPixels) = 1) =>
        \A rc \in ContourPixels :
            /\ MarkedCells # {}
            /\ MarkedCells = Footprint(SourcePlaneCell(rc))

\* C20: after the inversion of a critical curve map with exactly one contour
\* pixel, whose source plane position is (b1, b2) as the inverter rounds it:
\* if (b1, b2) is within the map, the marked cells of the caustic map are the
\* cell (b2, b1), the cell one row above and the cell one column to the left
\* of it, each clamped into the map, and no other; if it is not, no cell is
\* marked.
C20_SingleContourPixel ==
    (job.body = "inverted" /\ Cardinality(ContourPixels) = 1) =>
        \A rc \in ContourPixels :
            MarkedCells = IF InMap(SourcePlaneCell(rc))
                          THEN Footprint(SourcePlaneCell(rc))
                          ELSE {}

\* C20, witness: a single contour pixel was inverted by a call other than
\* the one whose rows its source plane position is in, and three cells are
\* marked; the position is not the pixel itself.
C20_Witness ==
    /\ job.body = "inverted"
    /\ Cardinality(ContourPixels) = 1
    /\ Cardinality(MarkedCells) = 3
    /\ \E rc \in ContourPixels :
          /\ SourcePlaneCell(rc) # rc
          /\ MarkedCells = Footprint(SourcePlaneCell(rc))
          /\ \E k \in Workers :
                /\ rc[1] \in RowsOf(k)
                /\ SourcePlaneCell(rc)[1] \notin RowsOf(k)

---------------------------------------------------------------------------
(* C21: the geometry of a source after moves and resizes *)

\* The position and size fields of a source.
Geometry(s) ==
    [pos |-> s.pos, origin |-> s.origin, end_points |-> s.end_points,
     w |-> s.w, h |-> s.h]

\* C21: after any sequence of move and resize_area calls origin is
\* pos - (w/2, h/2) with integer division and end_points is origin + (w, h);
\* a resize_area(factor) leaves pos as it was, and the size it leaves is the
\* integer part of factor times the size of the original image, so that the
\* geometry is the one a source freshly built at pos and resized once by
\* factor has, whatever was resized before.
C21_ResizeKeepsCentre ==
    /\ [](/\ source.origin = <<source.pos[1] - source.w \div 2,
                               source.pos[2] - source.h \div 2>>
          /\ source.end_points = <<source.origin[1] + source.w,
                                   source.origin[2] + source.h>>)
    /\ [][SourceResize =>
            /\ source'.pos = source.pos
            /\ \E factor \in SampleFactors :
                  /\ source' = resize_area(source, factor)
                  /\ source'.w = StaticCastInt(source.imageRGB.cols * factor,
                                               FracDen)
                  /\ source'.h = StaticCastInt(source.imageRGB.rows * factor,
                                               FracDen)
                  /\ Geometry(source') =
                        Geometry(resize_area(sourceT(source.imageRGB,
                                                     source.pos[1],
                                                     source.pos[2]),
                                             factor))]_vars

\* C21, witness: a source of odd width, not the width of its image, whose
\* centre is off the place it was built at and whose origin is negative.
C21_Witness ==
    /\ source.w = 3
    /\ source.imageRGB.cols = 2
    /\ source.h = 1
    /\ source.imageRGB.rows = 1
    /\ source.pos = <<-1, 1>>
    /\ source.origin = <<-2, 1>>
    /\ source.end_points = <<1, 2>>
    /\ squery = IdleQuery

---------------------------------------------------------------------------
(* C22: a resize to a zero width or height *)

\* The step is a resize_area(factor) whose factor makes the width or the
\* height zero.
ResizeToZero ==
    /\ squery = IdleQuery
    /\ \E factor \in SampleFactors :
          /\ source' = resize_area(source, factor)
          /\ \/ StaticCastInt(source.imageRGB.cols * factor, FracDen) = 0
             \/ StaticCastInt(source.imageRGB.rows * factor, FracDen) = 0

\* C22, as stated: a resize_area whose factor makes the width or the height
\* zero leaves the working channel grids, the width, the height, the origin
\* and the end points as they were; no source has a zero width or height, and
\* the recorded width and height are always the dimensions of the working
\* channel grids.
C22_AsStated ==
    /\ [][ResizeToZero =>
            /\ source'.channels = source.channels
            /\ source'.w = source.w
            /\ source'.h = source.h
            /\ source'.origin = source.origin
            /\ source'.end_points = source.end_points]_vars
    /\ [](/\ source.w > 0
          /\ source.h > 0
          /\ source.end_points[1] > source.origin[1]
          /\ source.end_points[2] > source.origin[2]
          /\ source.w = source.channels.cols
          /\ source.h = source.channels.rows)

---------------------------------------------------------------------------
(* C23: the pixels a lens contains *)

\* The pixel (x, y) is one of the w x h pixels the lens data covers.
InFootprint(l, x, y) ==
    /\ l.origin[1] <= x /\ x < l.origin[1] + l.w
    /\ l.origin[2] <= y /\ y < l.origin[2] + l.h

\* C23, as stated: after any sequence of lens moves contains(x, y) is true
\* exactly for the pixels with origin <= coordinate < origin + extent on
\* each axis.
C23_AsStated ==
    lquery.fn = "contains" =>
        (lquery.result <=> InFootprint(lens, lquery.x, lquery.y))

---------------------------------------------------------------------------
(* C24: the indices at which the renderer reads the grids of the lens *)

\* The pixels of the screen as the render about to run treats them.
PendingPixels ==
    [rc \in Cells(screen.max_h, screen.max_w) |->
        RenderPixel(screen, lens, source, ~screen.redraw_overlay_only,
                    rc[1], rc[2])]

\* C24: for every lens position and overlay mode, a render reads the
\* critical curve map, the caustic map and the convergence byte grid only at
\* lens-relative indices (rel_i, rel_j) within [0, h) x [0, w), and hands
\* raytrace_pixel only indices within the deflection grids.
C24_RendererIndicesInGrid ==
    pc = "render" =>
        \A rc \in Cells(screen.max_h, screen.max_w) :
            /\ PendingPixels[rc].overlay_reads \subseteq Cells(lens.h, lens.w)
            /\ PendingPixels[rc].overlay_reads \subseteq
                  Cells(lens.cc_map.rows, lens.cc_map.cols)
                  \cap Cells(lens.caustic_map.rows, lens.caustic_map.cols)
                  \cap Cells(lens.kappa8u.rows, lens.kappa8u.cols)
            /\ PendingPixels[rc].alpha_reads \subseteq
                  Cells(lens.alpha1.rows, lens.alpha1.cols)
                  \cap Cells(lens.alpha2.rows, lens.alpha2.cols)

\* C24, witness: a full redraw in overlay mode 4 of a lens whose footprint
\* is partly outside the screen: a pixel in the lens reads the overlay
\* grids, a pixel left of the lens and a pixel below it hand raytrace_pixel
\* relocated indices.
C24_Witness ==
    /\ pc = "render"
    /\ ~screen.redraw_overlay_only
    /\ screen.overlay_mode = 4
    /\ lens.end_points[1] > screen.max_w
    /\ \E rc \in Cells(screen.max_h, screen.max_w) :
          PendingPixels[rc].overlay_reads # {}
    /\ \E rc \in Cells(screen.max_h, screen.max_w) :
          /\ rc[2] < lens.origin[1]
          /\ PendingPixels[rc].alpha_reads # {}
    /\ \E rc \in Cells(screen.max_h, screen.max_w) :
          /\ rc[1] >= lens.end_points[2]
          /\ PendingPixels[rc].alpha_reads # {}

\* C24, second case of the witness, kept as a predicate of its own: a full
\* redraw of a lens whose footprint is wholly outside the screen.
LensOffScreen ==
    /\ pc = "render"
    /\ ~screen.redraw_overlay_only
    /\ lens.end_points[1] <= 0
    /\ lens.end_points[2] <= 0

---------------------------------------------------------------------------
(* C25: the cells accessed by the field derivation *)

\* C25, as stated: deriv_x and deriv_y access only cells inside the grid,
\* for every grid of width >= 1 and height >= 1.
C25_AsStated ==
    mcall.fn = "deriv" =>
        /\ mcall.x_accesses \subseteq Cells(mcall.input.rows, mcall.input.cols)
        /\ mcall.y_accesses \subseteq Cells(mcall.input.rows, mcall.input.cols)

\* The accesses are inside the grid exactly for the grids of 3 and more
\* cells along the axis differentiated.
DerivAccessesInsideFrom3 ==
    mcall.fn = "deriv" =>
        /\ mcall.x_accesses \subseteq Cells(mcall.input.rows, mcall.input.cols)
              <=> mcall.input.cols >= 3
        /\ mcall.y_accesses \subseteq Cells(mcall.input.rows, mcall.input.cols)
              <=> mcall.input.rows >= 3

---------------------------------------------------------------------------
(* C26: the conversion of a byte convergence map *)

\* The convergence, in fixed point, that the byte b stands for when 255
\* stands for 2.0.
FixedNormalization(b) == cvRound(2 * FracDen * b, 255)

\* C26, as stated: for a CV_8U input the convergence of a cell is the cell's
\* byte scaled so that 255 gives 2.0, whatever the least and the greatest
\* byte of the grid are.
C26_AsStated ==
    (lens # IdleLens /\ lens.kappa_in.depth = "CV_8U") =>
        \A rc \in Cells(lens.h, lens.w) :
            lens.kappa.at[rc] * FracDen
                = FixedNormalization(lens.kappa_in.at[rc]) * lens.kappa.den

---------------------------------------------------------------------------
(* C27: the fields of a scaled convergence grid *)

\* The grid scaled is, cell by cell, k times the grid base.
ScaledBy(scaled, base, k) ==
    /\ scaled.rows = base.rows /\ scaled.cols = base.cols
    /\ \A rc \in Cells(base.rows, base.cols) :
          scaled.at[rc] * base.den = k * base.at[rc] * scaled.den

\* The same for the shear grids, whose cells are square roots rounded down
\* to the unit of the grid: the two sides differ by less than Abs(k) units.
ShearScaledBy(scaled, base, k) ==
    /\ scaled.rows = base.rows /\ scaled.cols = base.cols /\ scaled.den = base.den
    /\ \A rc \in Cells(base.rows, base.cols) :
          IF k = 0 THEN scaled.at[rc] = 0
          ELSE Abs(scaled.at[rc] - k * base.at[rc]) < Abs(k)

\* C27, as stated: scaling a double-valued convergence grid by any k, also a
\* negative one, scales the potential, both deflection grids and the shear
\* grid by k, cell by cell.
C27_AsStated ==
    mcall.fn = "fields" =>
        /\ ScaledBy(mcall.scaled.psi, mcall.base.psi, mcall.k)
        /\ ScaledBy(mcall.scaled.alpha1, mcall.base.alpha1, mcall.k)
        /\ ScaledBy(mcall.scaled.alpha2, mcall.base.alpha2, mcall.k)
        /\ ShearScaledBy(mcall.scaled.shear, mcall.base.shear, mcall.k)

\* C27: scaling a double-valued convergence grid by any k scales the
\* potential and both deflection grids by k, cell by cell, and the shear
\* grid, a magnitude that is never negative, by the absolute value of k.
C27_FieldsScale ==
    mcall.fn = "fields" =>
        /\ ScaledBy(mcall.scaled.psi, mcall.base.psi, mcall.k)
        /\ ScaledBy(mcall.scaled.alpha1, mcall.base.alpha1, mcall.k)
        /\ ScaledBy(mcall.scaled.alpha2, mcall.base.alpha2, mcall.k)
        /\ ShearScaledBy(mcall.scaled.shear, mcall.base.shear, Abs(mcall.k))
        /\ \A rc \in Cells(mcall.scaled.shear.rows, mcall.scaled.shear.cols) :
              mcall.scaled.shear.at[rc] >= 0

\* C27, witness: a grid with a deflection and a shear that are not zero was
\* scaled by -2, and the shear of the scaled grid is well above zero.
C27_Witness ==
    /\ mcall.fn = "fields"
    /\ mcall.k = -2
    /\ \E rc \in Cells(mcall.base.psi.rows, mcall.base.psi.cols) :
          /\ mcall.base.psi.at[rc] # 0
          /\ mcall.base.alpha1.at[rc] # 0
          /\ mcall.base.alpha2.at[rc] # 0
          /\ mcall.base.shear.at[rc] > 2
          /\ mcall.scaled.shear.at[rc] > 4
          /\ mcall.scaled.alpha1.at[rc] * mcall.base.alpha1.at[rc] < 0

---------------------------------------------------------------------------
(* C28: the values of deriv_x and deriv_y *)

\* Twice the central difference of the grid f along the row r at the column
\* c, and along the column c at the row r; a neighbour outside the grid
\* counts 0, as in the shifted grids.
CentralX(f, r, c) == GridAt(f, r, c + 1) - GridAt(f, r, c - 1)
CentralY(f, r, c) == GridAt(f, r + 1, c) - GridAt(f, r - 1, c)

\* The cell k of a line of n cells takes the central difference of the cell
\* from: an interior cell its own, the two cells at each end that of the
\* nearest interior cell.
TakesFrom(n, k, from) ==
    \/ 2 <= k /\ k <= n - 3 /\ from = k
    \/ k \in {0, 1} /\ from = 2
    \/ k \in {n - 1, n - 2} /\ from = n - 3

\* C28, as stated: deriv_x of a grid f of any size gives at every interior
\* column c, 2 <= c <= W-3, the central difference (f[r][c+1] - f[r][c-1]) / 2,
\* at the columns 0 and 1 that of the column 2 and at the columns W-1 and W-2
\* that of the column W-3; deriv_y does the same along the rows.
C28_AsStated ==
    mcall.fn = "deriv" =>
        /\ mcall.defined
        /\ mcall.dx.den = 2 * mcall.input.den
        /\ mcall.dy.den = 2 * mcall.input.den
        /\ \A rc \in Cells(mcall.input.rows, mcall.input.cols) :
              /\ \A from \in -2 .. mcall.input.cols :
                    TakesFrom(mcall.input.cols, rc[2], from) =>
                        mcall.dx.at[rc] = CentralX(mcall.input, rc[1], from)
              /\ \A from \in -2 .. mcall.input.rows :
                    TakesFrom(mcall.input.rows, rc[1], from) =>
                        mcall.dy.at[rc] = CentralY(mcall.input, from, rc[2])

\* The same holds for the grids of 4 x 4 cells and more.
DerivValuesFrom4 ==
    (mcall.fn = "deriv" /\ mcall.input.rows >= 4 /\ mcall.input.cols >= 4) =>
        \A rc \in Cells(mcall.input.rows, mcall.input.cols) :
            /\ \A from \in -2 .. mcall.input.cols :
                  TakesFrom(mcall.input.cols, rc[2], from) =>
                      mcall.dx.at[rc] = CentralX(mcall.input, rc[1], from)
            /\ \A from \in -2 .. mcall.input.rows :
                  TakesFrom(mcall.input.rows, rc[1], from) =>
                      mcall.dy.at[rc] = CentralY(mcall.input, from, rc[2])

\* In a grid of 3 columns the column 1 does not hold the central difference
\* of the column 2 but the difference taken at the column 0, whose left
\* neighbour counts 0.
DerivThreeColumns ==
    (mcall.fn = "deriv" /\ mcall.defined /\ mcall.input.cols = 3) =>
        \A r \in 0 .. mcall.input.rows - 1 :
            /\ mcall.dx.at[<<r, 0>>] = CentralX(mcall.input, r, 2)
            /\ mcall.dx.at[<<r, 1>>] = CentralX(mcall.input, r, 0)
            /\ mcall.dx.at[<<r, 2>>] = CentralX(mcall.input, r, 0)
            /\ mcall.dx.at[<<r, 1>>] # CentralX(mcall.input, r, 2)

---------------------------------------------------------------------------
(* C29: the masks that a render reads *)

\* C29: after any sequence of events, whenever a render runs with the
\* critical curve layer active (overlay mode 2, 3 or 4), the critical curve
\* map and the caustic map are those of an extraction made with the current
\* weight of the lens, with the radial lines exactly in the modes 3 and 4;
\* the caustic map holds the marks of that extraction and no other; an
\* extraction that was put off is flagged until it is made, and none is
\* flagged when the render runs.
C29_MasksCurrentAtRender ==
    /\ (pc = "render" /\ screen.overlay_mode \in {2, 3, 4}) =>
          /\ lens.cc_weight = lens.weight
          /\ lens.weight = screen.weight_int
          /\ lens.cc_radial = (screen.overlay_mode \in {3, 4})
          /\ lens.cc_map \in ContourMasks(lens, screen.overlay_mode \in {3, 4})
          /\ lens.caustic_map = invert_cc_map(lens, lens.cc_map)
          /\ ~screen.redraw_cc_on_next_action
    /\ ~screen.redraw_cc_on_next_action =>
          /\ lens.cc_weight = lens.weight
          /\ lens.cc_radial = screen.cc_radial

\* C29, witness: an overlay-only render is about to run in mode 2 after an
\* extraction that a weight change in mode 0 or 1 had put off: the maps were
\* extracted before with the radial lines, and now hold the contours and
\* the caustics of the new weight without them.
C29_Witness ==
    /\ pc = "render"
    /\ screen.redraw_overlay_only
    /\ screen.overlay_mode = 2
    /\ screen.cc_radial = FALSE
    /\ screen.weight_int = 10
    /\ lens.cc_weight = 10
    /\ ~lens.cc_radial
    /\ \E rc \in DOMAIN lens.cc_map.at : lens.cc_map.at[rc] = 255
    /\ \E rc \in DOMAIN lens.caustic_map.at : lens.caustic_map.at[rc] = 255
    /\ \E rc \in DOMAIN lens.caustic_map.at : lens.caustic_map.at[rc] = 0

---------------------------------------------------------------------------
(* C30: the two modes of a render *)

\* Every cell of the lensed image is the ray-traced source sample for the
\* lens and the source as they are.
LensedCurrent ==
    \A rc \in Cells(screen.max_h, screen.max_w) :
        screen.lensedRGB[rc] = TracedSample(lens, source, rc)

\* C30, as stated: for the lens, the source and the overlay mode as they
\* are and a lensed image that is current, the pass of an overlay-only render
\* and the pass of a full redraw leave the same final image, pixel for pixel.
\* (The mark at the source centre is drawn after the pass, the same in both
\* modes; on the screens of this model its disc of radius 7 covers every
\* pixel, so the images are compared as the pass leaves them.)
C30_AsStated ==
    (screen # IdleScreen /\ LensedCurrent) =>
        ParallelRender(screen, lens, source, TRUE).finalRGB
            = ParallelRender(screen, lens, source, FALSE).finalRGB

\* The two final images differ at most at the pixels that are on a critical
\* curve of intensity 255 and on a caustic at once, where the overlay-only
\* pass leaves white and the full pass red; the lensed images they leave
\* are the same.
RenderModesDifferOnlyThere ==
    (screen # IdleScreen /\ LensedCurrent) =>
        LET only == ParallelRender(screen, lens, source, TRUE)
            full == ParallelRender(screen, lens, source, FALSE)
        IN  /\ only.lensedRGB = full.lensedRGB
            /\ \A rc \in Cells(screen.max_h, screen.max_w) :
                  only.finalRGB[rc] # full.finalRGB[rc] =>
                      /\ ShowCC /\ InLens(rc)
                      /\ CCAt(rc) = 255 /\ CausticAt(rc) > 0
                      /\ only.finalRGB[rc] = White
                      /\ full.finalRGB[rc] = Red

====
